---- MODULE Spec2Model ----
(***************************************************************************)
(* Traffic-violation lookup service: the retry orchestrator                *)
(* (ViolationService), the site session client (ViolationRepository), the  *)
(* scheduler (CronService / CronJobExecutionService) and the OCR worker    *)
(* pool (TesseractWorkerManager).                                          *)
(*                                                                         *)
(* JavaScript strings are sequences of one-character strings, so that      *)
(* String.prototype.includes is computed and not assumed.                  *)
(***************************************************************************)
EXTENDS Integers, Sequences, FiniteSets, TLC

\* ---------------------------------------------------------------------
\* Bounds of the model
\* ---------------------------------------------------------------------
\* lookupByPlate calls made on one ViolationService instance
MaxCalls == 2

\* ---------------------------------------------------------------------
\* Strings
\* ---------------------------------------------------------------------
\* an absent optional string (undefined)
Undefined == [text |-> <<>>, origin |-> "undefined", image |-> 0]

\* String.prototype.includes
Includes(s, p) ==
    \E i \in 1..(Len(s) - Len(p) + 1) : SubSeq(s, i, i + Len(p) - 1) = p

Digit(d) ==
    CASE d = 0 -> "0" [] d = 1 -> "1" [] d = 2 -> "2" [] d = 3 -> "3"
      [] d = 4 -> "4" [] d = 5 -> "5" [] d = 6 -> "6" [] d = 7 -> "7"
      [] d = 8 -> "8" [] d = 9 -> "9"

\* template-literal conversion of a non-negative integer
RECURSIVE NumToString(_)
NumToString(n) ==
    IF n < 10 THEN <<Digit(n)>> ELSE NumToString(n \div 10) \o <<Digit(n % 10)>>

MsgEndpointChanged ==
    <<"W","e","b","s","i","t","e"," ","e","n","d","p","o","i","n","t"," ","m","a","y"," ","h","a","v","e"," ","c","h","a","n","g","e","d"," ","o","r"," ","s","e","s","s","i","o","n"," ","e","x","p","i","r","e","d","."," ","P","l","e","a","s","e"," ","t","r","y"," ","a","g","a","i","n",".">>
MsgForbidden ==
    <<"A","c","c","e","s","s"," ","f","o","r","b","i","d","d","e","n","."," ","P","o","s","s","i","b","l","e"," ","r","a","t","e"," ","l","i","m","i","t","i","n","g",".">>
MsgCaptchaFailedPrefix ==
    <<"C","a","p","t","c","h","a"," ","v","a","l","i","d","a","t","i","o","n"," ","f","a","i","l","e","d",":"," ">>
MsgServerErrorSuffix ==
    <<" ","-"," ","S","e","r","v","e","r"," ","e","r","r","o","r","."," ","P","l","e","a","s","e"," ","t","r","y"," ","a","g","a","i","n"," ","l","a","t","e","r",".">>
MsgTimeout ==
    <<"T","i","m","e","o","u","t"," ","-"," ","S","e","r","v","e","r"," ","i","s"," ","s","l","o","w"," ","t","o"," ","r","e","s","p","o","n","d","."," ","P","l","e","a","s","e"," ","t","r","y"," ","a","g","a","i","n",".">>
MsgUnknown ==
    <<"U","n","k","n","o","w","n"," ","e","r","r","o","r"," ","o","c","c","u","r","r","e","d">>
MsgRequired ==
    <<"P","l","a","t","e"," ","a","n","d"," ","v","e","h","i","c","l","e","T","y","p","e"," ","a","r","e"," ","r","e","q","u","i","r","e","d">>
MsgInvalidVehicleType ==
    <<"I","n","v","a","l","i","d"," ","v","e","h","i","c","l","e"," ","t","y","p","e","."," ","M","u","s","t"," ","b","e"," ","1"," ","(","C","a","r",")",","," ","2"," ","(","M","o","t","o","r","c","y","c","l","e",")",","," ","o","r"," ","3"," ","(","E","l","e","c","t","r","i","c"," ","b","i","c","y","c","l","e",")">>
AxiosStatusPrefix ==
    <<"R","e","q","u","e","s","t"," ","f","a","i","l","e","d"," ","w","i","t","h"," ","s","t","a","t","u","s"," ","c","o","d","e"," ">>
AxiosTimeoutMsg ==
    <<"t","i","m","e","o","u","t"," ","o","f"," ","3","0","0","0","0","m","s"," ","e","x","c","e","e","d","e","d">>
AxiosNetworkMsg ==
    <<"c","o","n","n","e","c","t"," ","E","C","O","N","N","R","E","F","U","S","E","D"," ","2","0","3",".","1","6","2",".","0",".","1",":","4","4","3">>
MsgOcrEmpty ==
    <<"T","e","s","s","e","r","a","c","t"," ","O","C","R"," ","f","a","i","l","e","d",":"," ","T","e","s","s","e","r","a","c","t"," ","O","C","R"," ","f","a","i","l","e","d"," ","t","o"," ","e","x","t","r","a","c","t"," ","t","e","x","t"," ","f","r","o","m"," ","c","a","p","t","c","h","a"," ","i","m","a","g","e">>
BodyRejected ==
    <<"{","\"","s","u","c","c","e","s","s","\"",":","\"","f","a","l","s","e","\"",",","\"","m","s","g","\"",":","\"","S","a","i"," ","m","a"," ","b","a","o"," ","m","a","t","\"","}">>
BodyWith404 ==
    <<"{","\"","s","u","c","c","e","s","s","\"",":","\"","f","a","l","s","e","\"",",","\"","m","s","g","\"",":","\"","E","r","r","o","r"," ","4","0","4","\"","}">>
BodyWith403 ==
    <<"{","\"","s","u","c","c","e","s","s","\"",":","\"","f","a","l","s","e","\"",",","\"","c","o","d","e","\"",":","4","0","3","}">>
PlateRaw ==
    <<"5","1","k","-","6","7","1","7","9"," ">>

\* ---------------------------------------------------------------------
\* Program constants
\* ---------------------------------------------------------------------
\* default of the maxRetries parameter of lookupWithRetry
maxRetries == 5

\* faulty variant of validVehicleTypes: a fourth type is let through
validVehicleTypesWide == {"1", "2", "3", "9"}

validVehicleTypes == {"1", "2", "3"}

LowerCase ==
    <<"a","b","c","d","e","f","g","h","i","j","k","l","m","n","o","p","q","r","s","t","u","v","w","x","y","z">>
UpperCase ==
    <<"A","B","C","D","E","F","G","H","I","J","K","L","M","N","O","P","Q","R","S","T","U","V","W","X","Y","Z">>

\* String.prototype.toUpperCase, one character
ToUpperChar(c) ==
    IF \E i \in 1..26 : LowerCase[i] = c
    THEN UpperCase[CHOOSE i \in 1..26 : LowerCase[i] = c]
    ELSE c

\* a normalisation that removes whitespace only: plate.replace(/\s/g, '').toUpperCase()
RECURSIVE cleanPlateKeepingDashes(_)
cleanPlateKeepingDashes(p) ==
    IF p = <<>> THEN <<>>
    ELSE IF Head(p) = " " THEN cleanPlateKeepingDashes(Tail(p))
    ELSE <<ToUpperChar(Head(p))>> \o cleanPlateKeepingDashes(Tail(p))

\* plate.replace(/[\s-]/g, '').toUpperCase()
RECURSIVE cleanPlate(_)
cleanPlate(p) ==
    IF p = <<>> THEN <<>>
    ELSE IF Head(p) \in {" ", "-"} THEN cleanPlate(Tail(p))
    ELSE <<ToUpperChar(Head(p))>> \o cleanPlate(Tail(p))

\* ---------------------------------------------------------------------
\* Inputs: what the caller passes and what the site answers
\* ---------------------------------------------------------------------
Plates == {<<>>, PlateRaw}
VehicleTypes == {"1", "9", ""}

ManualText == <<"A","B","1","2">>
OcrText == <<"x","7","K","p">>
\* options.captchaText as supplied by the caller
ManualCaptchas ==
    {Undefined, [text |-> ManualText, origin |-> "manual", image |-> 0]}

\* JavaScript truthiness of an optional string
Truthy(c) == c # Undefined /\ c.text # <<>>

HttpErrorStatuses == {403, 404, 429, 500, 501, 503}

\* outcome of one axios request as the transport sees it
TransportFailures ==
    [kind : {"http"}, status : HttpErrorStatuses, body : {<<>>}]
      \cup {[kind |-> "timeout", status |-> 0, body |-> <<>>],
            [kind |-> "network", status |-> 0, body |-> <<>>]}
Ok == [kind |-> "ok", status |-> 200, body |-> <<>>]
NoOutcome == [kind |-> "none", status |-> 0, body |-> <<>>]
\* HTTP 200 answers of the AJAX endpoint whose success field is not true
RejectBodies == {BodyRejected, BodyWith404, BodyWith403}
Rejections == [kind : {"rejected"}, status : {200}, body : RejectBodies]

\* the error axios rejects with: message, response.status (0: no response), code
AxiosError(out) ==
    CASE out.kind = "http" ->
           [message |-> AxiosStatusPrefix \o NumToString(out.status),
            status |-> out.status, code |-> "ERR_BAD_RESPONSE"]
      [] out.kind = "timeout" ->
           [message |-> AxiosTimeoutMsg, status |-> 0, code |-> "ECONNABORTED"]
      [] out.kind = "network" ->
           [message |-> AxiosNetworkMsg, status |-> 0, code |-> "ECONNREFUSED"]

\* the Error thrown inside the try block of validateCaptchaAjax when the
\* response does not report success; responseData is JSON.stringify(resp.data)
RejectionError(responseData) ==
    [message |-> IF Includes(responseData, <<"4","0","4">>) THEN MsgEndpointChanged
                 ELSE IF Includes(responseData, <<"4","0","3">>) THEN MsgForbidden
                 ELSE MsgCaptchaFailedPrefix \o responseData,
     status |-> 0, code |-> ""]

\* catch block shared by validateCaptchaAjax and fetchLookupResult: the
\* message of the error that leaves the method
ClassifyError(e) ==
    IF e.status = 404 THEN MsgEndpointChanged
    ELSE IF e.status = 403 THEN MsgForbidden
    ELSE IF e.status >= 500 THEN NumToString(e.status) \o MsgServerErrorSuffix
    ELSE IF e.code \in {"ECONNABORTED", "ETIMEDOUT"} THEN MsgTimeout
    ELSE e.message

isRetryableError(message) ==
    \/ Includes(message, <<"C","a","p","t","c","h","a"," ","v","a","l","i","d","a","t","i","o","n"," ","f","a","i","l","e","d">>)
    \/ Includes(message, <<"4","0","4">>)
    \/ Includes(message, <<"4","0","3">>)
    \/ Includes(message, <<"5","0","0">>)
    \/ Includes(message, <<"5","0","2">>)
    \/ Includes(message, <<"5","0","3">>)
    \/ Includes(message, <<"5","0","4">>)
    \/ Includes(message, <<"T","i","m","e","o","u","t">>)
    \/ Includes(message, <<"S","e","r","v","e","r"," ","e","r","r","o","r">>)
    \/ Includes(message, <<"E","C","O","N","N","A","B","O","R","T","E","D">>)
    \/ Includes(message, <<"E","T","I","M","E","D","O","U","T">>)

\* the condition under which the retry loop clears options.captchaText and
\* counts a captcha regeneration
clearsCaptcha(message) ==
    \/ Includes(message, <<"C","a","p","t","c","h","a"," ","v","a","l","i","d","a","t","i","o","n"," ","f","a","i","l","e","d">>)
    \/ Includes(message, <<"4","0","4">>)
    \/ Includes(message, <<"4","0","3">>)
    \/ Includes(message, <<"T","i","m","e","o","u","t">>)
    \/ Includes(message, <<"S","e","r","v","e","r"," ","e","r","r","o","r">>)

\* ---------------------------------------------------------------------
\* State
\* ---------------------------------------------------------------------
VARIABLES
    callNo,             \* number of lookupByPlate calls started on the service
    jar,                \* cookie jar of the repository's client: 0 empty, else
                        \* the call whose session the stored cookie belongs to
    pc,                 \* by call: position of the call
    plate,              \* by call: cleanPlate of the call
    vehicleType,
    options,            \* by call: the caller's options object (mutated in place)
    attempt,            \* by call: loop variable of lookupWithRetry
    totalRetryCaptcha,
    lastError,          \* by call: message of lastError
    captchaText,        \* by call: local of lookupViolations
    image,              \* by call: attempt in which the held captcha image was
                        \* fetched, 0: none
    result,             \* by call: what the call returned (or threw)
    carried,            \* by call: content of the jar when the request the
                        \* call is waiting for was sent
    lastReq,            \* by call: the last request of the call that the site
                        \* has answered
    lastOut,            \* and how the site answered it
    attemptsRun,        \* by call: lookupViolations invocations of the call
    refreshes,          \* of which with forceRefreshCaptcha = true
    completed,          \* by call: network calls of the current attempt that
                        \* have completed successfully
    only5xx,            \* by call: every attempt of the call so far failed on
                        \* an HTTP 5xx answer
    rest,               \* by call: the REST request that made the call: its query
                        \* parameters and the status of the response (0: none
                        \* yet); at 0 the last request answered without a call
    input,              \* by call: the plate as the caller passed it
    supplied,           \* by call: options.captchaText as the caller set it
    waited              \* by call: milliseconds of the backoff wait in
                        \* progress, 0: none

lookupVars ==
    <<callNo, jar, pc, plate, vehicleType, options, attempt, totalRetryCaptcha,
      lastError, captchaText, image, result, carried, lastReq, lastOut, attemptsRun,
      refreshes, completed, only5xx, rest, input, supplied, waited>>

\* the lookupByPlate calls, in the order they are started
Calls == 1..MaxCalls

NoReq ==
    [call |-> 0, kind |-> "none", attempt |-> 0, cookie |-> 0, captcha |-> Undefined,
     after |-> {}, BienKS |-> <<>>]
NoResult == [status |-> "none"]
NoRest == [pending |-> FALSE, status |-> 0, plate |-> <<>>, vehicleType |-> ""]

LookupInit ==
    /\ callNo = 0
    /\ jar = 0
    /\ pc = [c \in Calls |-> "idle"]
    /\ plate = [c \in Calls |-> <<>>]
    /\ vehicleType = [c \in Calls |-> ""]
    /\ options = [c \in Calls |-> [captchaText |-> Undefined]]
    /\ attempt = [c \in Calls |-> 0]
    /\ totalRetryCaptcha = [c \in Calls |-> 0]
    /\ lastError = [c \in Calls |-> <<>>]
    /\ captchaText = [c \in Calls |-> Undefined]
    /\ image = [c \in Calls |-> 0]
    /\ result = [c \in Calls |-> NoResult]
    /\ carried = [c \in Calls |-> 0]
    /\ lastReq = [c \in Calls |-> NoReq]
    /\ lastOut = [c \in Calls |-> NoOutcome]
    /\ attemptsRun = [c \in Calls |-> 0]
    /\ refreshes = [c \in Calls |-> 0]
    /\ completed = [c \in Calls |-> {}]
    /\ only5xx = [c \in Calls |-> TRUE]
    /\ rest = [c \in 0..MaxCalls |-> NoRest]
    /\ input = [c \in Calls |-> <<>>]
    /\ supplied = [c \in Calls |-> Undefined]
    /\ waited = [c \in Calls |-> 0]

\* =====================================================================
\* Scheduler: CronService, CronJobExecutionService, lookup history
\* =====================================================================
\* executions of the active jobs that are started: the batches of the
\* scheduler (scheduled ticks and executeNow calls) and the runs of
\* executeAllActiveCronJobs
MaxBatches == 2
\* seconds the database clock can advance
MaxClock == 1
\* executeAllActiveCronJobs invocations
MaxRuns == 1
\* database statements that fail
MaxFaults == 1
\* setupCronJob calls that are made
MaxSetupCalls == 3

\* users and cronJobs tables
UsersTable ==
    <<[id |-> 1, chatId |-> 101], [id |-> 2, chatId |-> 102]>>
CronJobsTable ==
    <<[id |-> 1, userId |-> 2, plate |-> "30A12345", vehicleType |-> "1", isActive |-> TRUE],
      [id |-> 2, userId |-> 1, plate |-> "51K67179", vehicleType |-> "2", isActive |-> TRUE]>>

\* the ids AUTOINCREMENT can give to rows of cronJobs: the rows of the table
\* and one row for every setup call
RowIds == 1..(Len(CronJobsTable) + MaxSetupCalls)

UserById(uid) == UsersTable[CHOOSE k \in 1..Len(UsersTable) : UsersTable[k].id = uid]

\* the row mapping of getAllActiveCronJobs: the query selects cj.*, u.* and
\* the driver keeps the last column of a duplicated name, so row.id is the
\* id of the user row
ActiveJobRow(cj) ==
    LET u == UserById(cj.userId)
        rowId == u.id
    IN [id |-> rowId, userId |-> cj.userId, plate |-> cj.plate,
        vehicleType |-> cj.vehicleType,
        user |-> [id |-> rowId, chatId |-> u.chatId]]

\* the answers the active-jobs query can give: the active rows by ascending
\* nextRun (ORDER BY cj.nextRun ASC, NULL first; nr is the column nextRun by
\* row id, 0 for NULL); rows of equal nextRun come in no defined order
getAllActiveCronJobs(rows, nr) ==
    LET IsActive(cj) == cj.isActive
        active == SelectSeq(rows, IsActive)
        n == Len(active)
        orders == {p \in [1..n -> 1..n] :
                     /\ \A k, l \in 1..n : p[k] = p[l] => k = l
                     /\ \A k, l \in 1..n :
                           k < l => nr[active[p[k]].id] <= nr[active[p[l]].id]}
    IN {[k \in 1..n |-> ActiveJobRow(active[p[k]])] : p \in orders}

\* FOREIGN KEY (cronJobId) REFERENCES cronJobs (id), with foreign_keys = ON
ForeignKeyHolds(rows, cronJobId) ==
    \E k \in 1..Len(rows) : rows[k].id = cronJobId

\* the labels and markers parseResultHtml looks for, as the site writes them
\* 'Biển kiểm soát'
LabelPlate == <<"B","i","U1EC3","n"," ","k","i","U1EC3","m"," ","s","o","U00E1","t">>
\* 'Màu biển'
LabelPlateColor == <<"M","U00E0","u"," ","b","i","U1EC3","n">>
\* 'Loại phương tiện'
LabelVehicleType ==
    <<"L","o","U1EA1","i"," ","p","h","U01B0","U01A1","n","g"," ","t","i","U1EC7","n">>
\* 'Thời gian vi phạm'
LabelViolationTime ==
    <<"T","h","U1EDD","i"," ","g","i","a","n"," ","v","i"," ","p","h","U1EA1","m">>
\* 'Địa điểm vi phạm'
LabelLocation ==
    <<"U0110","U1ECB","a"," ","U0111","i","U1EC3","m"," ","v","i"," ","p","h","U1EA1","m">>
\* 'Hành vi vi phạm'
LabelViolation == <<"H","U00E0","n","h"," ","v","i"," ","v","i"," ","p","h","U1EA1","m">>
\* 'Trạng thái'
LabelStatus == <<"T","r","U1EA1","n","g"," ","t","h","U00E1","i">>
\* 'Nơi giải quyết'
LabelResolutionPlace ==
    <<"N","U01A1","i"," ","g","i","U1EA3","i"," ","q","u","y","U1EBF","t">>
\* 'Đội CSGT'
MarkDepartment == <<"U0110","U1ED9","i"," ","C","S","G","T">>
\* 'Địa chỉ:'
MarkAddress == <<"U0110","U1ECB","a"," ","c","h","U1EC9",":">>
\* 'Số điện thoại'
MarkPhone == <<"S","U1ED1"," ","U0111","i","U1EC7","n"," ","t","h","o","U1EA1","i">>
\* 'Số điện thoại liên hệ:'
MarkPhoneContact == MarkPhone \o <<" ","l","i","U00EA","n"," ","h","U1EC7",":">>
MsgNeedsParsing ==
    "Violation found - need to parse HTML structure in more detail"

\* the characters \s matches in the texts at hand
Whitespace == {" ", "\n"}

\* String.prototype.trim: leading and trailing whitespace dropped
RECURSIVE trimStart(_)
trimStart(text) ==
    IF text # <<>> /\ Head(text) \in Whitespace THEN trimStart(Tail(text)) ELSE text

RECURSIVE trimEnd(_)
trimEnd(text) ==
    IF text # <<>> /\ text[Len(text)] \in Whitespace
    THEN trimEnd(SubSeq(text, 1, Len(text) - 1))
    ELSE text

trim(text) == trimEnd(trimStart(text))

\* String.prototype.indexOf: the 0-based position of the first occurrence, -1
\* when there is none
indexOf(s, p) ==
    IF Includes(s, p)
    THEN (CHOOSE i \in 1..(Len(s) - Len(p) + 1) :
             /\ SubSeq(s, i, i + Len(p) - 1) = p
             /\ \A j \in 1..(i - 1) : SubSeq(s, j, j + Len(p) - 1) # p) - 1
    ELSE 0 - 1

\* String.prototype.substring: both indices are clamped to 0..length and
\* swapped when the first is the greater
substring(s, start, end) ==
    LET clamp(n) == IF n < 0 THEN 0 ELSE IF n > Len(s) THEN Len(s) ELSE n
        a == clamp(start)
        b == clamp(end)
    IN IF a <= b THEN SubSeq(s, a + 1, b) ELSE SubSeq(s, b + 1, a)

\* String.prototype.replace with a string pattern: the first occurrence
replace(s, p, by) ==
    LET at == indexOf(s, p)
    IN IF at < 0 THEN s
       ELSE SubSeq(s, 1, at) \o by \o SubSeq(s, at + Len(p) + 1, Len(s))

\* an object without keys
NoKeys == [f \in {} |-> 0]

\* obj[field] = value on an object that may lack the key
Assign(obj, field, value) ==
    [f \in DOMAIN obj \cup {field} |-> IF f = field THEN value ELSE obj[f]]

\* the callback of formGroups.each on the form group el: the label and the
\* value are the trimmed texts of its label and of its .col-md-9, the text is
\* the trimmed text of the whole group; parsing is the record of the locals
\* currentViolation and violationCount and of the list violations
parseFormGroup(parsing, el) ==
    LET set(field, value) ==
            [parsing EXCEPT !.currentViolation = Assign(@, field, value)]
        unlabelled == el.text # <<>> /\ el.label = <<>>
    IN IF Includes(el.label, LabelPlate)
       THEN [currentViolation |->
                [plate |-> el.value, violationNumber |-> parsing.violationCount + 1],
             violationCount |-> parsing.violationCount + 1,
             violations |->
                IF DOMAIN parsing.currentViolation # {}
                THEN Append(parsing.violations, parsing.currentViolation)
                ELSE parsing.violations]
       ELSE IF Includes(el.label, LabelPlateColor) THEN set("plateColor", el.value)
       ELSE IF Includes(el.label, LabelVehicleType) THEN set("vehicleType", el.value)
       ELSE IF Includes(el.label, LabelViolationTime) THEN set("violationTime", el.value)
       ELSE IF Includes(el.label, LabelLocation) THEN set("location", el.value)
       ELSE IF Includes(el.label, LabelViolation) THEN set("violation", el.value)
       ELSE IF Includes(el.label, LabelStatus) THEN set("status", el.value)
       ELSE IF Includes(el.label, LabelResolutionPlace)
       THEN set("resolutionPlace", el.value)
       ELSE IF unlabelled /\ Includes(el.text, MarkDepartment)
       THEN set("resolutionDepartment", el.text)
       ELSE IF unlabelled /\ Includes(el.text, MarkAddress)
       THEN set("resolutionAddress", trim(replace(el.text, MarkAddress, <<>>)))
       ELSE IF unlabelled /\ Includes(el.text, MarkPhone)
       THEN set("resolutionPhone", trim(replace(el.text, MarkPhoneContact, <<>>)))
       ELSE parsing

RECURSIVE parseFormGroups(_, _)
parseFormGroups(parsing, formGroups) ==
    IF formGroups = <<>> THEN parsing
    ELSE parseFormGroups(parseFormGroup(parsing, Head(formGroups)), Tail(formGroups))

\* parseResultHtml on a result page: html is the text of the page, bodyPrint
\* tells whether it has a #bodyPrint123 or #bodyPrint container and
\* formGroups are the .form-group elements of the container, in document
\* order. A page in which nothing is parsed and that names a traffic police
\* unit gives the one entry of the fallback
parseResultHtml(page) ==
    LET parsed ==
            parseFormGroups([currentViolation |-> NoKeys, violationCount |-> 0,
                             violations |-> <<>>], page.formGroups)
        violations ==
            IF ~page.bodyPrint THEN <<>>
            ELSE IF DOMAIN parsed.currentViolation # {}
            THEN Append(parsed.violations, parsed.currentViolation)
            ELSE parsed.violations
    IN IF violations = <<>> /\ Includes(page.html, MarkDepartment)
       THEN <<[plate |-> <<>>, violationNumber |-> 0, message |-> MsgNeedsParsing,
               rawPreview |-> substring(page.html, indexOf(page.html, LabelPlate),
                                        indexOf(page.html, LabelPlate) + 500)]>>
       ELSE violations

\* a form group with a label and a value, and one without a label
Labelled(label, value) ==
    [label |-> label, value |-> value, text |-> label \o <<":", " ">> \o value]
Unlabelled(text) == [label |-> <<>>, value |-> <<>>, text |-> text]

RECURSIVE TextOf(_)
TextOf(formGroups) ==
    IF formGroups = <<>> THEN <<>>
    ELSE Head(formGroups).text \o <<" ">> \o TextOf(Tail(formGroups))

\* a page with a container and a page without one
PageWith(formGroups) ==
    [bodyPrint |-> TRUE, formGroups |-> formGroups, html |-> TextOf(formGroups)]
PageOfText(html) == [bodyPrint |-> FALSE, formGroups |-> <<>>, html |-> html]

\* the violations the site holds for a plate, as the form groups of their
\* blocks on a result page
PlateOnPage == <<"3","0","A","1","2","3","4","5">>
TimeA == <<"0","8",":","1","5",",","0","1","/","0","2">>
TimeB == <<"1","7",":","4","0",",","0","9","/","0","3">>
DepartmentLine == MarkDepartment \o <<" ","s","U1ED1"," ","1">>
BlockA ==
    <<Labelled(LabelPlate, PlateOnPage), Labelled(LabelViolationTime, TimeA),
      Labelled(LabelLocation, <<"Q","L","1","A">>),
      Labelled(LabelViolation, <<"s","p","e","e","d","i","n","g">>)>>
BlockB ==
    <<Labelled(LabelPlate, PlateOnPage), Labelled(LabelViolationTime, TimeB),
      Labelled(LabelLocation, <<"Q","L","5">>),
      Labelled(LabelViolation, <<"r","e","d"," ","l","i","g","h","t">>),
      Unlabelled(DepartmentLine)>>

\* the page without a violation
PageNone == PageOfText(<<"K","h","U00F4","n","g"," ","t","U00EC","m"," ","t","h","U1EA5","y">>)
PageB == PageWith(BlockB)
PageAB == PageWith(BlockA \o BlockB)
\* a page whose blocks are not found although it names a police unit
PageUnparsed ==
    PageOfText(DepartmentLine \o <<" ","-"," ">> \o LabelPlate \o <<" ">> \o PlateOnPage)
\* a page whose container starts with a labelled group before the first plate
PageStatusFirst ==
    PageWith(<<Labelled(LabelStatus, <<"U0110","U00E3"," ","x","U1EED"," ","p","h","U1EA1","t">>)>>
             \o BlockB)

ResultPages == {PageNone, PageB, PageAB, PageUnparsed, PageStatusFirst}

\* `${violation.violationNumber || ''}-${violation.violationTime || ''}`
getViolationKey(v) ==
    (IF "violationNumber" \in DOMAIN v /\ v.violationNumber # 0
     THEN NumToString(v.violationNumber) ELSE <<>>)
        \o <<"-">>
        \o (IF "violationTime" \in DOMAIN v THEN v.violationTime ELSE <<>>)

Keys(list) == {getViolationKey(list[k]) : k \in 1..Len(list)}

compareViolations(previous, current) ==
    LET IsNew(v) == getViolationKey(v) \notin Keys(previous)
        IsRemoved(v) == getViolationKey(v) \notin Keys(current)
        newViolations == SelectSeq(current, IsNew)
        removedViolations == SelectSeq(previous, IsRemoved)
    IN [hasChanges |-> Len(newViolations) > 0 \/ Len(removedViolations) > 0,
        newViolations |-> newViolations,
        removedViolations |-> removedViolations]

NoHistory == [success |-> FALSE, violations |-> <<>>, id |-> 0, plate |-> ""]

\* the answers getLatestLookupHistory can give on table h: success false when
\* the SELECT throws (selectOk false) or the job has no row, else a row of
\* the job with the greatest lookupTime (ORDER BY lookupTime DESC LIMIT 1;
\* rows of the same second are returned in no defined order)
getLatestLookupHistory(h, cronJobId, selectOk) ==
    LET rows == {k \in 1..Len(h) : h[k].cronJobId = cronJobId}
        latest == {k \in rows : \A m \in rows : h[m].lookupTime <= h[k].lookupTime}
    IN IF ~selectOk \/ rows = {} THEN {NoHistory}
       ELSE {[success |-> TRUE, violations |-> h[k].violations, id |-> h[k].id,
               plate |-> h[k].plate] : k \in latest}

\* compareWithPreviousLookup, given the answer of getLatestLookupHistory; the
\* stored violations are the JSON of a list of flat records of strings and
\* numbers, which JSON.parse gives back unchanged
compareWithPreviousLookup(historyResult, currentViolations) ==
    IF ~historyResult.success
    THEN [hasChanges |-> TRUE, newViolations |-> currentViolations,
          removedViolations |-> <<>>]
    ELSE compareViolations(historyResult.violations, currentViolations)

\* outcome of violationService.lookupByPlate as executeCronJob sees it
LookupOutcomes ==
    [status : {"ok"}, page : ResultPages]
        \cup {[status |-> "error", page |-> PageNone], [status |-> "thrown", page |-> PageNone]}

\* the outcomes with the pages on which every block is found
BlockOutcomes ==
    {outcome \in LookupOutcomes : outcome.page \in {PageNone, PageB, PageAB}}

\* the CronJobExecutionResult of a failed execution
FailedExecution ==
    [success |-> FALSE, lookupResult |-> [status |-> "none"], hasNewViolations |-> FALSE]

\* faulty variant of ExecutionResult: a failed write turns the execution
\* into a failure
ExecutionResultStrict(inserted, updated, lookupResult, comparisonResult) ==
    [success |-> inserted /\ updated,
     lookupResult |-> IF inserted /\ updated THEN lookupResult ELSE [status |-> "none"],
     hasNewViolations |-> (inserted /\ updated) /\ comparisonResult.hasChanges]

\* the CronJobExecutionResult executeCronJob returns once the lookup has
\* succeeded; inserted, updated: the history INSERT and the cronJobs UPDATE
\* went through
ExecutionResult(inserted, updated, lookupResult, comparisonResult) ==
    [success |-> TRUE, lookupResult |-> lookupResult,
     hasNewViolations |-> comparisonResult.hasChanges]

\* hour of the day of config.cron.schedule, '0 9 * * *'
scheduleHour == 9

SecondsPerDay == 86400

\* calculateNextRun: the first time of the schedule after the current time t
\* (seconds, the clock starts at midnight)
calculateNextRun(t) ==
    LET today == (t \div SecondsPerDay) * SecondsPerDay + scheduleHour * 3600
    IN IF t < today THEN today ELSE today + SecondsPerDay

NoComparison ==
    [hasChanges |-> FALSE, newViolations |-> <<>>, removedViolations |-> <<>>]

\* the messages sendCronJobNotification sends when every send goes through,
\* in the order it sends them
Messages(success, comparison) ==
    IF ~success THEN <<"error">>
    ELSE IF ~comparison.hasChanges THEN <<"nochanges">>
    ELSE (IF Len(comparison.newViolations) > 0 THEN <<"new">> ELSE <<>>)
            \o (IF Len(comparison.removedViolations) > 0 THEN <<"removed">> ELSE <<>>)

VARIABLES
    cronTask,       \* the scheduled task exists (CronService.start was called)
    stats,          \* CronService.stats
    batch,          \* the executeScheduledJobs invocations
    started,        \* number of executeScheduledJobs invocations so far
    history,        \* table lookupHistory
    lastRun,        \* column lastRun of cronJobs, by row id (0: NULL)
    nextRun,        \* column nextRun of cronJobs, by row id (0: NULL)
    now,            \* database clock, seconds
    cronJobs,       \* table cronJobs: id, userId, plate, vehicleType, isActive
    historySeq,     \* AUTOINCREMENT sequence of lookupHistory: the greatest id given
    run,            \* the executeAllActiveCronJobs invocation
    runs,           \* number of executeAllActiveCronJobs invocations so far
    faults          \* number of database statements that have failed so far

cronVars ==
    <<cronTask, stats, batch, started, history, lastRun, nextRun, now, cronJobs,
      historySeq, run, runs, faults>>

Batches == 1..MaxBatches

NothingPersisted == [history |-> FALSE, runTimes |-> FALSE]

\* milliseconds of the delay between two jobs of a batch
interJobDelay == 2000

\* milliseconds executeAllActiveCronJobs waits after every job
runDelay == 1000

\* daysToKeep of the cleanupOldLookupHistory calls: none, and the default
CleanupDays == {0, 30}

IdleBatch ==
    [pc |-> "idle", activeJobs |-> <<>>, i |-> 0, successCount |-> 0,
     failureCount |-> 0, log |-> <<>>, timer |-> 0, lookupStatus |-> "none",
     persisted |-> NothingPersisted, execution |-> FailedExecution,
     executed |-> NoComparison, notified |-> NoComparison,
     notices |-> {}, pending |-> <<>>, io |-> <<>>, previous |-> <<>>,
     current |-> <<>>, snapshotPlate |-> "", querySucceeded |-> TRUE]

\* the scheduler before its start, the tables lookupHistory and its clock
CronIdle ==
    /\ cronTask = FALSE
    /\ stats = [totalExecutions |-> 0, successfulExecutions |-> 0, failedExecutions |-> 0]
    /\ batch = [b \in Batches |-> IdleBatch]
    /\ started = 0
    /\ history = <<>>
    /\ lastRun = [id \in RowIds |-> 0]
    /\ nextRun = [id \in RowIds |-> 0]
    /\ now = 0
    /\ historySeq = 0
    /\ run = IdleBatch
    /\ runs = 0
    /\ faults = 0

\* two users have set up a cron job
CronInit == CronIdle /\ cronJobs = CronJobsTable


\* =====================================================================
\* OCR worker pool: TesseractWorkerManager
\* =====================================================================
\* callers of tesseractWorkerManager.recognize
NumCallers == 4
\* config.captcha.tesseract.workerPool.maxWorkers (TESSERACT_MAX_WORKERS unset)
maxWorkers == 3

VARIABLES
    pool,       \* TesseractWorkerManager.pool
    caller      \* position of each recognize call

poolVars == <<pool, caller>>

Callers == 1..NumCallers

\* the recognitions actually running in the OCR engine
InFlight == {c \in Callers : caller[c] = "recognizing"}

\* TesseractWorkerManager.getPoolStatus
getPoolStatus ==
    [totalWorkers |-> pool.maxConcurrent,
     availableWorkers |-> pool.maxConcurrent - pool.currentJobs,
     busyWorkers |-> pool.currentJobs,
     isInitialized |-> pool.isInitialized]

PoolInit ==
    /\ pool = [maxConcurrent |-> maxWorkers, currentJobs |-> 0, isInitialized |-> TRUE]
    /\ caller = [c \in Callers |-> "idle"]

\* =====================================================================
\* Cron-job setup: CronJobService.setupCronJob on table cronJobs
\* =====================================================================
SetupCalls == 1..MaxSetupCalls
SetupPlates == {"30A12345", "51K67179"}

\* the vehicle types of the setup calls
SetupVehicleTypes == {"1", "2"}

VARIABLES
    setupCall   \* position and locals of each setupCronJob call

setupVars == <<setupCall>>

IdleSetup ==
    [pc |-> "idle", userId |-> 0, plate |-> "", vehicleType |-> "", existing |-> FALSE]

SetupInit == setupCall = [c \in SetupCalls |-> IdleSetup]

\* SELECT * FROM cronJobs WHERE userId = ?; readOk: no database error
getCronJobByUserId(rows, userId, readOk) ==
    readOk /\ \E k \in 1..Len(rows) : rows[k].userId = userId

\* INSERT INTO cronJobs (userId, plate, vehicleType): isActive takes its
\* default 1, lastRun and nextRun stay NULL
createCronJob(rows, userId, p, vt) ==
    Append(rows, [id |-> Len(rows) + 1, userId |-> userId, plate |-> p,
                  vehicleType |-> vt, isActive |-> TRUE])

\* UPDATE cronJobs SET <the fields of updates> WHERE userId = ?, for updates
\* of plate, vehicleType and isActive
updateCronJobRows(rows, userId, updates) ==
    [k \in 1..Len(rows) |->
        IF rows[k].userId = userId
        THEN [f \in DOMAIN rows[k] |->
                 IF f \in DOMAIN updates THEN updates[f] ELSE rows[k][f]]
        ELSE rows[k]]

\* UPDATE cronJobs SET <a run time> = value WHERE userId = ?, on the column
\* col of the run time
setRunTime(col, rows, userId, value) ==
    [id \in DOMAIN col |->
        IF \E k \in 1..Len(rows) : rows[k].id = id /\ rows[k].userId = userId
        THEN value ELSE col[id]]

\* =====================================================================
\* Paid / unpaid counts: calculateViolationCounts
\* =====================================================================
\* violations in a list handed to calculateViolationCounts
MaxViolations == 3

\* characters outside ASCII are written by their code point: "U0111" is the
\* letter d with stroke
LowerCaseNonAscii == <<"U0111", "U00E3", "U1EED", "U1EA1", "U01B0", "U1ED9">>
UpperCaseNonAscii == <<"U0110", "U00C3", "U1EEC", "U1EA0", "U01AF", "U1ED8">>

\* String.prototype.toLowerCase, one character
ToLowerChar(c) ==
    IF \E i \in 1..26 : UpperCase[i] = c
    THEN LowerCase[CHOOSE i \in 1..26 : UpperCase[i] = c]
    ELSE IF \E i \in 1..Len(UpperCaseNonAscii) : UpperCaseNonAscii[i] = c
    THEN LowerCaseNonAscii[CHOOSE i \in 1..Len(UpperCaseNonAscii) : UpperCaseNonAscii[i] = c]
    ELSE c

toLowerCase(s) == [k \in 1..Len(s) |-> ToLowerChar(s[k])]

StatusDaXuPhat ==
    <<"U0110","U00E3"," ","x","U1EED"," ","p","h","U1EA1","t">>
StatusChuaNopPhat ==
    <<"C","h","U01B0","a"," ","n","U1ED9","p"," ","p","h","U1EA1","t">>
StatusChuaXuPhat ==
    <<"C","h","U01B0","a"," ","x","U1EED"," ","p","h","U1EA1","t">>
StatusUnpaid ==
    <<"U","n","p","a","i","d">>
\* the status texts of the violations of a result page; <<>>: no status
Statuses == {<<>>, StatusDaXuPhat, StatusChuaNopPhat, StatusChuaXuPhat, StatusUnpaid}

isPaid(status) ==
    IF status = <<>> THEN FALSE
    ELSE LET s == toLowerCase(status)
         IN \/ Includes(s, <<"U0111","U00E3"," ","x","U1EED"," ","p","h","U1EA1","t">>)
            \/ Includes(s, <<"U0111","U00E3"," ","n","U1ED9","p">>)
            \/ Includes(s, <<"p","a","i","d">>)
            \/ Includes(s, <<"p","r","o","c","e","s","s","e","d">>)
            \/ Includes(s, <<"r","e","s","o","l","v","e","d">>)

isUnpaid(status) ==
    IF status = <<>> THEN FALSE
    ELSE LET s == toLowerCase(status)
         IN \/ Includes(s, <<"c","h","U01B0","a"," ","x","U1EED"," ","p","h","U1EA1","t">>)
            \/ Includes(s, <<"c","h","U01B0","a"," ","n","U1ED9","p">>)
            \/ Includes(s, <<"n","o","t">>)
            \/ Includes(s, <<"u","n","p","a","i","d">>)
            \/ Includes(s, <<"n","o","t"," ","y","e","t">>)

\* violations.reduce((acc, v) => acc + (pred(v.status) ? 1 : 0), 0)
RECURSIVE CountWhere(_, _)
CountWhere(list, paid) ==
    IF list = <<>> THEN 0
    ELSE (IF (IF paid THEN isPaid(Head(list)) ELSE isUnpaid(Head(list))) THEN 1 ELSE 0)
            + CountWhere(Tail(list), paid)

\* the counts lookupViolations puts into its result
calculateViolationCounts(list) ==
    [totalViolations |-> Len(list),
     totalPaidViolations |-> CountWhere(list, TRUE),
     totalUnpaidViolations |-> CountWhere(list, FALSE)]

StatusLists ==
    UNION {[1..n -> Statuses] : n \in 0..MaxViolations}

VARIABLES
    statuses,   \* the status of each violation of the list
    counts      \* the counts computed for it

countVars == <<statuses, counts>>

NoCounts == [totalViolations |-> 0 - 1, totalPaidViolations |-> 0, totalUnpaidViolations |-> 0]

CountsIdle ==
    /\ statuses = <<>>
    /\ counts = NoCounts

\* =====================================================================
\* The captcha solver (utils/captchaSolver)
\* =====================================================================
MaxText == 2

Glyphs == {"0", "O", "1", "l", "5", "S", "6", "G", "8", "B", "I"}
\* the text "O0I1"
ScenarioText == <<"O", "0", "I", "1">>
\* what the OCR engine may report for an image
RawTexts ==
    UNION {[1..n -> Glyphs \cup Whitespace] : n \in 0..MaxText} \cup {ScenarioText}
Confidences == {25, 30, 49, 50}
CaptchaMethods == {"tesseract", "autocaptcha"}
\* the optional parameter `method` left out
NoMethod == "undefined"
\* the text the external service answers with
AutocaptchaText == <<"a", "u", "t", "o">>

Resolved(text) == [ok |-> TRUE, text |-> text, error |-> "none"]
Rejected(error) == [ok |-> FALSE, text |-> <<>>, error |-> error]
NoOut == Rejected("not called")

\* replace(/\s+/g, ''): every run of whitespace replaced by nothing
RECURSIVE replaceWhitespace(_)
replaceWhitespace(text) ==
    IF text = <<>> THEN <<>>
    ELSE IF Head(text) \in Whitespace
    THEN replaceWhitespace(trimStart(text))
    ELSE <<Head(text)>> \o replaceWhitespace(Tail(text))

\* corrections[char] || char
corrections(char) ==
    CASE char = "0" -> "O"
      [] char = "1" -> "l"
      [] char = "5" -> "S"
      [] char = "6" -> "G"
      [] char = "8" -> "B"
      [] char = "l" -> "1"
      [] char = "O" -> "0"
      [] char = "S" -> "5"
      [] char = "G" -> "6"
      [] char = "B" -> "8"
      [] OTHER -> char

needsCorrectionUpToFifty(confidence) == confidence <= 50

\* if (confidence < 50)
needsCorrection(confidence) == confidence < 50

\* if (confidence < 30) console.warn(...)
warnsLowConfidence(text, confidence, engineOk) ==
    /\ engineOk
    /\ replaceWhitespace(trim(text)) # <<>>
    /\ confidence < 30

\* engineOk is FALSE when createWorker or worker.recognize throws
solveWithTesseract(text, confidence, engineOk) ==
    IF ~engineOk THEN Rejected("Tesseract OCR failed")
    ELSE LET cleanedText == replaceWhitespace(trim(text))
         IN IF cleanedText = <<>> THEN Rejected("Tesseract OCR failed")
            ELSE IF needsCorrection(confidence)
            THEN Resolved([i \in 1..Len(cleanedText) |-> corrections(cleanedText[i])])
            ELSE Resolved(cleanedText)

\* serviceOk is FALSE when the request fails or the answer holds no text
solveWithAutocaptcha(key, serviceOk) ==
    IF ~key THEN Rejected("AUTOCAPTCHA_KEY not set")
    ELSE IF ~serviceOk THEN Rejected("Autocaptcha failed")
    ELSE Resolved(AutocaptchaText)

VARIABLES
    solver      \* the last call of solveCaptcha: its inputs, the methods it ran, its outcome

solverVars == <<solver>>

SolverIdle ==
    solver = [pc |-> "idle", method |-> NoMethod, defaultMethod |-> "tesseract",
              key |-> FALSE, text |-> <<>>, confidence |-> 50, invoked |-> <<>>,
              ocr |-> NoOut, warned |-> FALSE, out |-> NoOut]

\* =====================================================================
\* The global OCR worker of utils/captchaSolver
\* =====================================================================
\* concurrent calls of solveWithTesseract
MaxSolves == 3
\* calls of cleanupTesseract
MaxCleanups == 2

Solves == 1..MaxSolves
Cleanups == 1..MaxCleanups

\* a cleanupTesseract call that was not made yet
IdleCleanup == [pc |-> "idle", target |-> 0]

VARIABLES
    worker,     \* the module variable worker: 0 is null, else the worker created by that call
    workers,    \* the workers created and not terminated
    solve,      \* position of each solveWithTesseract call
    cleaning    \* each cleanupTesseract call: its position and the worker it terminates

workerVars == <<worker, workers, solve, cleaning>>

WorkerInit ==
    /\ worker = 0
    /\ workers = {}
    /\ solve = [c \in Solves |-> "idle"]
    /\ cleaning = [k \in Cleanups |-> IdleCleanup]

\* =====================================================================
\* The conversations of TelegramService
\* =====================================================================
\* handlers of the bot that are awaiting at the same time
MaxHandlers == 3

Handlers == 1..MaxHandlers

\* the handlers touch the state of their own chat only
Chats == {1}

ChatVehicleTypes == {"1", "2"}

\* texts the users send: a plate, and a text too short for a plate
ChatPlates == {<<"5", "1", "K", "0", "1", "2", "3", "4">>, <<"5", "1", "K">>}

\* results of lookupByPlate as sendViolationResults tells them apart
LookupResults == {"violations", "none", "error"}

\* UserAction.CRON_SETUP and UserAction.CRON_UPDATE
CronActions == {"cron_setup", "cron_update"}

\* no entry of userStates for the chat
NoState == [step |-> "none", action |-> "", vehicleType |-> "", plate |-> <<>>]

\* the object { step, action } a handler stores in userStates
NewState(step, action) ==
    [step |-> step, action |-> action, vehicleType |-> "", plate |-> <<>>]

\* a handler that is not running
IdleHandler == [pc |-> "idle", chat |-> 0, res |-> "", inTry |-> FALSE]

\* a handler of chat chatId awaiting at position at
Awaiting(at, chatId) == [IdleHandler EXCEPT !.pc = at, !.chat = chatId]

VARIABLES
    userStates, \* the record userStates: conversation state of each chat
    handler     \* the handlers that are awaiting: the chat and the await they are at

chatVars == <<userStates, handler>>

ChatInit ==
    /\ userStates = [c \in Chats |-> NoState]
    /\ handler = [h \in Handlers |-> IdleHandler]

vars == <<lookupVars, cronVars, poolVars, setupVars, countVars, solverVars, workerVars,
          chatVars>>

Init ==
    /\ LookupInit /\ CronInit /\ PoolInit /\ SetupInit /\ CountsIdle /\ SolverIdle
    /\ WorkerInit /\ ChatInit

\* ---------------------------------------------------------------------
\* Actions of the lookup pipeline
\* ---------------------------------------------------------------------
\* the form validateCaptchaAjax posts: BienKS is the plate and a trailing space
createFormData(p, vt, captcha) ==
    [BienKS |-> p \o <<" ">>, Xe |-> vt, captcha |-> captcha.text]

\* the request of call c that the site has answered; only the captcha
\* validation sends the plate
Request(c, kind, captcha) ==
    [call |-> c, kind |-> kind, attempt |-> attempt[c], cookie |-> carried[c],
     captcha |-> captcha, after |-> completed[c],
     BienKS |-> IF kind = "validate"
                THEN createFormData(plate[c], vehicleType[c], captcha).BienKS
                ELSE <<>>]

\* the positions at which a call waits for the answer to a request sent
\* through the repository's client; at "answered" the headers of the answer
\* to the initSession request have arrived and the call waits for the rest
NetworkSteps == {"session", "answered", "captcha", "validate", "result"}

\* the step of call c ends by sending the next request of the call, if any,
\* with the cookie the jar holds at that moment
Sends(c) ==
    carried' = [carried EXCEPT ![c] = IF pc'[c] \in NetworkSteps THEN jar' ELSE @]

\* faulty variant of backoffDelay: the same wait before every retry
backoffDelayFlat(k) == 2000

\* attempt * 2000, the argument of setTimeout in the catch block
backoffDelay(k) == k * 2000

\* the error result built after the retry loop
ErrorResult(c, message) ==
    [status |-> "error",
     message |-> IF message # <<>> THEN message ELSE MsgUnknown,
     totalRetryCaptcha |-> totalRetryCaptcha[c]]

\* catch block of lookupWithRetry up to the backoff wait (or the break)
Catch(c, message, out) ==
    /\ lastError' = [lastError EXCEPT ![c] = message]
    /\ only5xx' = [only5xx EXCEPT ![c] = (@ /\ out.kind = "http" /\ out.status >= 500)]
    /\ IF ~isRetryableError(message) \/ attempt[c] > maxRetries
       THEN /\ pc' = [pc EXCEPT ![c] = "done"]
            /\ result' = [result EXCEPT ![c] = ErrorResult(c, message)]
            /\ UNCHANGED waited
       ELSE /\ pc' = [pc EXCEPT ![c] = "backoff"]
            /\ waited' = [waited EXCEPT ![c] = backoffDelay(attempt[c])]
            /\ UNCHANGED result

\* lookupByPlate up to the first network call; the call gets the next number
lookupByPlateBody(p, vt, manual) ==
    LET c == callNo + 1
        valid == p # <<>> /\ vt # "" /\ vt \in validVehicleTypes
    IN /\ callNo < MaxCalls
       /\ callNo' = c
       /\ lastReq' = [lastReq EXCEPT ![c] = NoReq]
       /\ lastOut' = [lastOut EXCEPT ![c] = NoOutcome]
       /\ only5xx' = [only5xx EXCEPT ![c] = TRUE]
       /\ image' = [image EXCEPT ![c] = 0]
       /\ captchaText' = [captchaText EXCEPT ![c] = Undefined]
       /\ lastError' = [lastError EXCEPT ![c] = <<>>]
       /\ totalRetryCaptcha' = [totalRetryCaptcha EXCEPT ![c] = 0]
       /\ options' = [options EXCEPT ![c] = [captchaText |-> manual]]
       /\ completed' = [completed EXCEPT ![c] = {}]
       /\ input' = [input EXCEPT ![c] = p]
       /\ supplied' = [supplied EXCEPT ![c] = manual]
       /\ waited' = [waited EXCEPT ![c] = 0]
       /\ refreshes' = [refreshes EXCEPT ![c] = 0]
       /\ vehicleType' = [vehicleType EXCEPT ![c] = vt]
       /\ UNCHANGED jar
       /\ IF p = <<>> \/ vt = ""
          THEN /\ pc' = [pc EXCEPT ![c] = "done"]
               /\ result' = [result EXCEPT ![c] =
                                [status |-> "thrown", message |-> MsgRequired]]
          ELSE IF vt \notin validVehicleTypes
          THEN /\ pc' = [pc EXCEPT ![c] = "done"]
               /\ result' = [result EXCEPT ![c] =
                                [status |-> "thrown", message |-> MsgInvalidVehicleType]]
          ELSE /\ pc' = [pc EXCEPT ![c] = "session"]
               /\ result' = [result EXCEPT ![c] = NoResult]
       /\ plate' = [plate EXCEPT ![c] = IF valid THEN cleanPlate(p) ELSE p]
       /\ attempt' = [attempt EXCEPT ![c] = IF valid THEN 1 ELSE 0]
       /\ attemptsRun' = [attemptsRun EXCEPT ![c] = IF valid THEN 1 ELSE 0]
       /\ Sends(c)

\* a call of the service by the bot or the scheduler
lookupByPlate(p, vt, manual) ==
    /\ lookupByPlateBody(p, vt, manual)
    /\ rest' = [rest EXCEPT ![callNo + 1] = NoRest]
    /\ UNCHANGED <<cronVars, poolVars, setupVars, countVars, solverVars, workerVars, chatVars>>

\* ViolationController.getHttpStatusCodeFromError
getHttpStatusCodeFromError(errorMessage) ==
    IF Includes(errorMessage, <<"4","0","4">>) THEN 404
    ELSE IF Includes(errorMessage, <<"4","0","3">>) THEN 403
    ELSE IF Includes(errorMessage, <<"4","0","1">>) THEN 401
    ELSE IF Includes(errorMessage, <<"4","0","0">>) THEN 400
    ELSE IF Includes(errorMessage, <<"5","0","3">>) THEN 503
    ELSE IF Includes(errorMessage, <<"5","0","4">>) THEN 504
    ELSE IF Includes(errorMessage, <<"T","i","m","e","o","u","t">>) THEN 504
    ELSE IF Includes(errorMessage, <<"S","e","r","v","e","r"," ","e","r","r","o","r">>) THEN 502
    ELSE IF Includes(errorMessage, <<"C","a","p","t","c","h","a"," ","v","a","l","i","d","a","t","i","o","n"," ","f","a","i","l","e","d">>) THEN 400
    ELSE 500

\* GET /api/violations up to the first network call of the service, or up to
\* the response when there is none
lookupViolations(p, vt, captcha) ==
    /\ IF p = <<>> \/ vt = ""
       THEN /\ rest' = [rest EXCEPT ![0] =
                           [pending |-> FALSE, status |-> 400, plate |-> p,
                            vehicleType |-> vt]]
            /\ UNCHANGED <<input, supplied, waited, callNo, pc, plate, vehicleType, options,
                           attempt, totalRetryCaptcha, lastError, captchaText, image, result,
                           jar, carried, lastReq, lastOut, attemptsRun, refreshes, completed,
                           only5xx>>
       ELSE /\ lookupByPlateBody(p, vt, captcha)
            /\ rest' = [rest EXCEPT ![callNo + 1] =
                           IF result'[callNo + 1].status = "thrown"
                           THEN [pending |-> FALSE, status |-> 500, plate |-> p,
                                 vehicleType |-> vt]
                           ELSE [pending |-> TRUE, status |-> 0, plate |-> p,
                                 vehicleType |-> vt]]
    /\ UNCHANGED <<cronVars, poolVars, setupVars, countVars, solverVars, workerVars, chatVars>>

\* the service call c has returned: the controller sends the response
respond(c) ==
    /\ rest[c].pending
    /\ pc[c] = "done"
    /\ rest' = [rest EXCEPT ![c] =
                   [@ EXCEPT !.pending = FALSE,
                             !.status = IF result[c].status = "error"
                                        THEN getHttpStatusCodeFromError(result[c].message)
                                        ELSE 200]]
    /\ UNCHANGED <<input, supplied, waited, callNo, pc, plate, vehicleType, options, attempt,
                   totalRetryCaptcha, lastError, captchaText, image, result,
                   jar, carried, lastReq, lastOut, attemptsRun, refreshes, completed,
                   only5xx>>
    /\ UNCHANGED <<cronVars, poolVars, setupVars, countVars, solverVars, workerVars, chatVars>>

\* faulty variant of needsCaptchaFetch: the forced refresh of a retry is
\* ignored when a manual captcha is at hand
needsCaptchaFetchUnforced(forceRefreshCaptcha, manualCaptcha) ==
    ~Truthy(manualCaptcha)

\* the condition under which lookupViolations fetches a captcha image
needsCaptchaFetch(forceRefreshCaptcha, manualCaptcha) ==
    forceRefreshCaptcha \/ ~Truthy(manualCaptcha)

\* the headers of the answer to the initSession request of call c arrive
\* with a Set-Cookie: the client stores the cookie in its jar when it sees
\* the headers, and the call goes on when the answer is complete, so that a
\* cookie of another call can be stored in between
cookieStored(c) ==
    /\ pc[c] = "session"
    /\ jar' = c
    /\ pc' = [pc EXCEPT ![c] = "answered"]
    /\ UNCHANGED <<input, supplied, rest, callNo, plate, vehicleType, options, attempt,
                   totalRetryCaptcha, lastError, captchaText, image, result, carried,
                   lastReq, lastOut, attemptsRun, refreshes, completed, only5xx, waited>>
    /\ UNCHANGED <<cronVars, poolVars, setupVars, countVars, solverVars, workerVars, chatVars>>

\* the answer of the site to the initSession request of call c is complete,
\* or the request has failed; the branch of lookupViolations that follows it.
\* setCookie: the answer sets a cookie that is stored in this same turn
initSession(c, out, setCookie) ==
    /\ pc[c] \in {"session", "answered"}
    /\ pc[c] = "answered" => ~setCookie
    /\ lastReq' = [lastReq EXCEPT ![c] = Request(c, "initSession", Undefined)]
    /\ lastOut' = [lastOut EXCEPT ![c] = out]
    /\ completed' = [completed EXCEPT ![c] =
                        IF out.kind = "ok" THEN @ \cup {"initSession"} ELSE @]
    /\ UNCHANGED <<input, supplied, rest, callNo, plate, vehicleType, options, attempt,
                   totalRetryCaptcha, image, attemptsRun, refreshes>>
    /\ IF out.kind = "ok"
       THEN /\ jar' = IF setCookie THEN c ELSE jar
            /\ IF needsCaptchaFetch(attempt[c] > 1, options[c].captchaText)
               THEN /\ pc' = [pc EXCEPT ![c] = "captcha"]
                    /\ UNCHANGED captchaText
               ELSE /\ pc' = [pc EXCEPT ![c] = "validate"]
                    /\ captchaText' = [captchaText EXCEPT ![c] = options[c].captchaText]
            /\ UNCHANGED <<lastError, result, only5xx, waited>>
       ELSE /\ Catch(c, AxiosError(out).message, out)
            /\ UNCHANGED <<jar, captchaText>>
    /\ Sends(c)
    /\ UNCHANGED <<cronVars, poolVars, setupVars, countVars, solverVars, workerVars, chatVars>>

\* the site answers the captcha request of call c
fetchCaptchaImage(c, out) ==
    /\ pc[c] = "captcha"
    /\ lastReq' = [lastReq EXCEPT ![c] = Request(c, "captcha", Undefined)]
    /\ lastOut' = [lastOut EXCEPT ![c] = out]
    /\ completed' = [completed EXCEPT ![c] =
                        IF out.kind = "ok" THEN @ \cup {"captcha"} ELSE @]
    /\ UNCHANGED <<input, supplied, rest, callNo, plate, vehicleType, options, attempt,
                   totalRetryCaptcha, captchaText, jar, attemptsRun, refreshes>>
    /\ IF out.kind = "ok"
       THEN /\ image' = [image EXCEPT ![c] = attempt[c]]
            /\ pc' = [pc EXCEPT ![c] = "solve"]
            /\ UNCHANGED <<lastError, result, only5xx, waited>>
       ELSE /\ Catch(c, AxiosError(out).message, out)
            /\ UNCHANGED image
    /\ Sends(c)
    /\ UNCHANGED <<cronVars, poolVars, setupVars, countVars, solverVars, workerVars, chatVars>>

\* ViolationRepository.solveCaptcha of call c; ocrOk: the OCR produced a text
solveCaptcha(c, ocrOk) ==
    /\ pc[c] = "solve"
    /\ UNCHANGED <<input, supplied, rest, callNo, plate, vehicleType, options, attempt,
                   totalRetryCaptcha, image, jar, lastReq, lastOut, attemptsRun,
                   refreshes, completed>>
    /\ IF Truthy(options[c].captchaText)
       THEN /\ captchaText' = [captchaText EXCEPT ![c] = options[c].captchaText]
            /\ pc' = [pc EXCEPT ![c] = "validate"]
            /\ UNCHANGED <<lastError, result, only5xx, waited>>
       ELSE IF ocrOk
       THEN /\ captchaText' = [captchaText EXCEPT ![c] =
                                  [text |-> OcrText, origin |-> "ocr", image |-> image[c]]]
            /\ pc' = [pc EXCEPT ![c] = "validate"]
            /\ UNCHANGED <<lastError, result, only5xx, waited>>
       ELSE /\ Catch(c, MsgOcrEmpty, NoOutcome)
            /\ UNCHANGED captchaText
    /\ Sends(c)
    /\ UNCHANGED <<cronVars, poolVars, setupVars, countVars, solverVars, workerVars, chatVars>>

\* faulty variant of validateCaptchaAjax: a non-success answer is not
\* detected and the attempt goes on to the result page
validateCaptchaAjaxUnchecked(c, out) ==
    /\ pc[c] = "validate"
    /\ lastReq' = [lastReq EXCEPT ![c] = Request(c, "validate", captchaText[c])]
    /\ lastOut' = [lastOut EXCEPT ![c] = out]
    /\ completed' = [completed EXCEPT ![c] =
                        IF out.kind = "ok" THEN @ \cup {"validate"} ELSE @]
    /\ UNCHANGED <<input, supplied, rest, callNo, plate, vehicleType, options, attempt,
                   totalRetryCaptcha, captchaText, image, jar, attemptsRun, refreshes>>
    /\ IF out.kind \in {"ok", "rejected"}
       THEN /\ pc' = [pc EXCEPT ![c] = "result"]
            /\ UNCHANGED <<lastError, result, only5xx, waited>>
       ELSE Catch(c, ClassifyError(AxiosError(out)), out)
    /\ Sends(c)
    /\ UNCHANGED <<cronVars, poolVars, setupVars, countVars, solverVars, workerVars, chatVars>>

\* the site answers the validation request of call c
validateCaptchaAjax(c, out) ==
    /\ pc[c] = "validate"
    /\ lastReq' = [lastReq EXCEPT ![c] = Request(c, "validate", captchaText[c])]
    /\ lastOut' = [lastOut EXCEPT ![c] = out]
    /\ completed' = [completed EXCEPT ![c] =
                        IF out.kind = "ok" THEN @ \cup {"validate"} ELSE @]
    /\ UNCHANGED <<input, supplied, rest, callNo, plate, vehicleType, options, attempt,
                   totalRetryCaptcha, captchaText, image, jar, attemptsRun, refreshes>>
    /\ IF out.kind = "ok"
       THEN /\ pc' = [pc EXCEPT ![c] = "result"]
            /\ UNCHANGED <<lastError, result, only5xx, waited>>
       ELSE IF out.kind = "rejected"
       THEN Catch(c, ClassifyError(RejectionError(out.body)), out)
       ELSE Catch(c, ClassifyError(AxiosError(out)), out)
    /\ Sends(c)
    /\ UNCHANGED <<cronVars, poolVars, setupVars, countVars, solverVars, workerVars, chatVars>>

\* the site answers the result request of call c; the rest of the attempt:
\* the success result gets totalRetryCaptcha attached by lookupWithRetry
fetchLookupResult(c, out) ==
    /\ pc[c] = "result"
    /\ lastReq' = [lastReq EXCEPT ![c] = Request(c, "result", Undefined)]
    /\ lastOut' = [lastOut EXCEPT ![c] = out]
    /\ completed' = [completed EXCEPT ![c] =
                        IF out.kind = "ok" THEN @ \cup {"result"} ELSE @]
    /\ UNCHANGED <<input, supplied, rest, callNo, plate, vehicleType, options, attempt,
                   totalRetryCaptcha, captchaText, image, jar, attemptsRun, refreshes>>
    /\ IF out.kind = "ok"
       THEN /\ pc' = [pc EXCEPT ![c] = "done"]
            /\ result' = [result EXCEPT ![c] =
                             [status |-> "ok", captcha |-> captchaText[c],
                              totalRetryCaptcha |-> totalRetryCaptcha[c]]]
            /\ only5xx' = [only5xx EXCEPT ![c] = FALSE]
            /\ UNCHANGED <<lastError, waited>>
       ELSE Catch(c, ClassifyError(AxiosError(out)), out)
    /\ Sends(c)
    /\ UNCHANGED <<cronVars, poolVars, setupVars, countVars, solverVars, workerVars, chatVars>>

\* the backoff wait of call c is over: rest of the catch block, next loop
\* iteration
retryAfterBackoff(c) ==
    /\ pc[c] = "backoff"
    /\ IF clearsCaptcha(lastError[c])
       THEN /\ options' = [options EXCEPT ![c].captchaText = Undefined]
            /\ totalRetryCaptcha' = [totalRetryCaptcha EXCEPT ![c] = @ + 1]
       ELSE UNCHANGED <<options, totalRetryCaptcha>>
    /\ attempt' = [attempt EXCEPT ![c] = @ + 1]
    /\ attemptsRun' = [attemptsRun EXCEPT ![c] = @ + 1]
    /\ refreshes' = [refreshes EXCEPT ![c] = IF attempt[c] + 1 > 1 THEN @ + 1 ELSE @]
    /\ pc' = [pc EXCEPT ![c] = "session"]
    /\ image' = [image EXCEPT ![c] = 0]
    /\ captchaText' = [captchaText EXCEPT ![c] = Undefined]
    /\ completed' = [completed EXCEPT ![c] = {}]
    /\ waited' = [waited EXCEPT ![c] = 0]
    /\ UNCHANGED <<input, supplied, rest, callNo, plate, vehicleType, lastError, result, jar,
                   lastReq, lastOut, only5xx>>
    /\ Sends(c)
    /\ UNCHANGED <<cronVars, poolVars, setupVars, countVars, solverVars, workerVars, chatVars>>

\* the steps of the calls in progress, whatever the site answers
AttemptSteps ==
    \/ \E c \in Calls : respond(c)
    \/ \E c \in Calls : cookieStored(c)
    \/ \E c \in Calls, out \in {Ok} \cup TransportFailures, setCookie \in BOOLEAN :
          initSession(c, out, setCookie)
    \/ \E c \in Calls, out \in {Ok} \cup TransportFailures : fetchCaptchaImage(c, out)
    \/ \E c \in Calls, ocrOk \in BOOLEAN : solveCaptcha(c, ocrOk)
    \/ \E c \in Calls, out \in {Ok} \cup Rejections \cup TransportFailures :
          validateCaptchaAjax(c, out)
    \/ \E c \in Calls, out \in {Ok} \cup TransportFailures : fetchLookupResult(c, out)
    \/ \E c \in Calls : retryAfterBackoff(c)

\* one ViolationService and one controller: calls start at any time, also
\* while earlier calls are waiting
LookupNext ==
    \/ \E p \in Plates, vt \in VehicleTypes, manual \in ManualCaptchas :
          lookupByPlate(p, vt, manual)
    \/ \E p \in Plates, vt \in VehicleTypes, captcha \in ManualCaptchas :
          lookupViolations(p, vt, captcha)
    \/ AttemptSteps

Spec == Init /\ [][LookupNext]_vars

\* the behaviours of Spec up to the return of the first call of the service,
\* started by the bot, the scheduler or a REST request, whatever the site
\* answers
FirstCallNext ==
    \/ /\ callNo = 0
       /\ \E p \in Plates, vt \in VehicleTypes, manual \in ManualCaptchas :
             lookupByPlate(p, vt, manual)
    \/ /\ callNo = 0
       /\ \E p \in Plates, vt \in VehicleTypes, captcha \in ManualCaptchas :
             lookupViolations(p, vt, captcha)
    \/ AttemptSteps

SpecFirstCall == Init /\ [][FirstCallNext]_vars

\* the answers of the site in the behaviours of SpecOverlap
FewAnswers == {Ok, [kind |-> "http", status |-> 500, body |-> <<>>]}

\* the behaviours of Spec with overlapping calls of the bot or the scheduler
\* and few answers of the site
OverlapNext ==
    \/ \E p \in Plates, vt \in VehicleTypes, manual \in ManualCaptchas :
          lookupByPlate(p, vt, manual)
    \/ \E c \in Calls, out \in FewAnswers, setCookie \in BOOLEAN :
          initSession(c, out, setCookie)
    \/ \E c \in Calls : fetchCaptchaImage(c, Ok)
    \/ \E c \in Calls : solveCaptcha(c, TRUE)
    \/ \E c \in Calls, out \in {Ok, [kind |-> "rejected", status |-> 200, body |-> BodyRejected]} :
          validateCaptchaAjax(c, out)
    \/ \E c \in Calls : fetchLookupResult(c, Ok)
    \/ \E c \in Calls : retryAfterBackoff(c)

SpecOverlap == Init /\ [][OverlapNext]_vars

\* overlapping calls of the bot with a valid plate and vehicle type, with the
\* cookies of the base pages stored when the headers arrive or when the
\* answer is complete
CookiesNext ==
    \/ \E manual \in ManualCaptchas : lookupByPlate(PlateRaw, "1", manual)
    \/ \E c \in Calls : cookieStored(c)
    \/ \E c \in Calls, out \in FewAnswers, setCookie \in BOOLEAN :
          initSession(c, out, setCookie)
    \/ \E c \in Calls : fetchCaptchaImage(c, Ok)
    \/ \E c \in Calls : solveCaptcha(c, TRUE)
    \/ \E c \in Calls : validateCaptchaAjax(c, Ok)
    \/ \E c \in Calls : fetchLookupResult(c, Ok)
    \/ \E c \in Calls : retryAfterBackoff(c)

SpecCookies == Init /\ [][CookiesNext]_vars

\* ---------------------------------------------------------------------
\* Actions of the scheduler
\* ---------------------------------------------------------------------
\* a database statement answers: ok, or it fails
Statement(ok) ==
    /\ ok \/ faults < MaxFaults
    /\ faults' = IF ok THEN faults ELSE faults + 1

\* CronService.start with config.enabled
start ==
    /\ ~cronTask
    /\ cronTask' = TRUE
    /\ UNCHANGED <<faults, historySeq, run, runs, cronJobs, stats, batch, started, history, lastRun, nextRun, now>>
    /\ UNCHANGED <<lookupVars, poolVars, setupVars, countVars, solverVars, workerVars, chatVars>>

stop ==
    /\ cronTask
    /\ cronTask' = FALSE
    /\ UNCHANGED <<faults, historySeq, run, runs, cronJobs, stats, batch, started, history, lastRun, nextRun, now>>
    /\ UNCHANGED <<lookupVars, poolVars, setupVars, countVars, solverVars, workerVars, chatVars>>

\* executeScheduledJobs up to the await of getAllActiveCronJobs: the
\* invocation is counted and the query has run; dbOk: the query succeeded
executeScheduledJobs(dbOk) ==
    /\ started + runs < MaxBatches
    /\ Statement(dbOk)
    /\ started' = started + 1
    /\ stats' = [stats EXCEPT !.totalExecutions = @ + 1]
    /\ \E activeJobs \in (IF dbOk THEN getAllActiveCronJobs(cronJobs, nextRun) ELSE {<<>>}) :
          batch' = [batch EXCEPT ![started + 1] =
                       [IdleBatch EXCEPT !.pc = "query",
                                         !.querySucceeded = dbOk,
                                         !.activeJobs = activeJobs]]
    /\ UNCHANGED <<historySeq, run, runs, cronJobs, cronTask, history, lastRun, nextRun, now>>
    /\ UNCHANGED <<lookupVars, poolVars, setupVars, countVars, solverVars, workerVars, chatVars>>

\* executeScheduledJobs of batch b after the await of getAllActiveCronJobs,
\* up to the lookup of the first job
activeJobsReturned(b) ==
    /\ batch[b].pc = "query"
    /\ IF ~batch[b].querySucceeded
       THEN /\ stats' = [stats EXCEPT !.failedExecutions = @ + 1]
            /\ batch' = [batch EXCEPT ![b].pc = "done"]
       ELSE IF Len(batch[b].activeJobs) = 0
       THEN /\ batch' = [batch EXCEPT ![b].pc = "done"]
            /\ UNCHANGED stats
       ELSE /\ batch' = [batch EXCEPT ![b].pc = "lookup", ![b].i = 1]
            /\ UNCHANGED stats
    /\ UNCHANGED <<faults, historySeq, run, runs, cronJobs, cronTask, started, history, lastRun,
                   nextRun, now>>
    /\ UNCHANGED <<lookupVars, poolVars, setupVars, countVars, solverVars, workerVars, chatVars>>

\* the callback node-cron runs at a scheduled time
cronTick(dbOk) ==
    /\ cronTask
    /\ executeScheduledJobs(dbOk)

\* executeNow only logs before it runs the batch
executeNow(dbOk) ==
    /\ TRUE
    /\ executeScheduledJobs(dbOk)

\* faulty variant of lookupFailed: the run times are updated before the
\* lookup result is looked at
lookupFailedTouchingRunTimes(b, status) ==
    LET job == batch[b].activeJobs[batch[b].i]
    IN /\ batch' = [batch EXCEPT ![b].pc = "notify",
                                 ![b].failureCount = @ + 1,
                                 ![b].log = Append(@, "failed"),
                                 ![b].lookupStatus = status,
                                 ![b].persisted = NothingPersisted,
                                 ![b].execution = FailedExecution,
                                 ![b].executed = NoComparison,
                                 ![b].notified = NoComparison,
                                 ![b].notices = {Head(Messages(FALSE, NoComparison))},
                                 ![b].pending = Tail(Messages(FALSE, NoComparison)),
                                 ![b].snapshotPlate = "", ![b].previous = <<>>,
                                 ![b].current = <<>>,
                                 ![b].io = <<>>]
       /\ lastRun' = setRunTime(lastRun, cronJobs, job.userId, now)
       /\ nextRun' = setRunTime(nextRun, cronJobs, job.userId, calculateNextRun(now))
       /\ UNCHANGED history

\* the lookup of the current job of batch b failed: executeCronJob returns
\* failure and the loop body takes its else branch up to the sending of the
\* error notification
lookupFailed(b, status) ==
    /\ batch' = [batch EXCEPT ![b].pc = "notify",
                              ![b].failureCount = @ + 1,
                              ![b].log = Append(@, "failed"),
                              ![b].lookupStatus = status,
                              ![b].persisted = NothingPersisted,
                              ![b].execution = FailedExecution,
                              ![b].executed = NoComparison,
                              ![b].notified = NoComparison,
                              ![b].notices = {Head(Messages(FALSE, NoComparison))},
                                 ![b].pending = Tail(Messages(FALSE, NoComparison)),
                              ![b].snapshotPlate = "", ![b].previous = <<>>,
                              ![b].current = <<>>,
                              ![b].io = <<>>]
    /\ UNCHANGED <<history, lastRun, nextRun>>

\* the job an execution record is at
Job(r) == r.activeJobs[r.i]

\* executeCronJob after a lookup that succeeded, up to the await of
\* compareWithPreviousLookup
lookupSucceeded(r, page) ==
    [r EXCEPT !.pc = "compare", !.lookupStatus = "ok", !.current = parseResultHtml(page)]

\* compareWithPreviousLookup has answered from the read read1
compared(r, read1, selectOk) ==
    [r EXCEPT !.pc = "insert",
              !.executed = compareWithPreviousLookup(read1, r.current),
              !.snapshotPlate = read1.plate,
              !.previous = read1.violations,
              !.io = <<[op |-> "read", row |-> read1.id, ok |-> selectOk]>>]

\* the row createLookupHistory inserts for the execution r
historyRow(r) ==
    [id |-> historySeq + 1, cronJobId |-> Job(r).id, violations |-> r.current,
     hasNewViolations |-> r.executed.hasChanges, lookupTime |-> now,
     plate |-> Job(r).plate]

\* the INSERT goes through: no database error (writeOk) and the foreign key holds
inserts(r, writeOk) == writeOk /\ ForeignKeyHolds(cronJobs, Job(r).id)

\* createLookupHistory on the table
createLookupHistory(r, writeOk) ==
    IF inserts(r, writeOk)
    THEN /\ history' = Append(history, historyRow(r))
         /\ historySeq' = historySeq + 1
    ELSE UNCHANGED <<history, historySeq>>

\* createLookupHistory has answered
created(r, inserted) ==
    [r EXCEPT !.pc = "update",
              !.persisted = [history |-> inserted, runTimes |-> FALSE],
              !.io = Append(@, [op |-> "write", ok |-> inserted,
                                row |-> IF inserted THEN historySeq + 1 ELSE 0])]

\* updateCronJob(userId, {lastRun, nextRun}) on the table
updateCronJob(userId, lastRunDate, nextRunDate, updateOk) ==
    IF updateOk
    THEN /\ lastRun' = setRunTime(lastRun, cronJobs, userId, lastRunDate)
         /\ nextRun' = IF nextRunDate # 0
                       THEN setRunTime(nextRun, cronJobs, userId, nextRunDate)
                       ELSE nextRun
    ELSE UNCHANGED <<lastRun, nextRun>>

\* updateCronJob has answered and executeCronJob returns
executed(r, updateOk) ==
    [r EXCEPT !.persisted = [history |-> r.persisted.history, runTimes |-> updateOk],
              !.execution = ExecutionResult(r.persisted.history, updateOk,
                                            [status |-> "ok", violations |-> r.current],
                                            r.executed)]

\* the lookup of the current job of batch b returns or throws
lookupReturns(b, outcome) ==
    /\ batch[b].pc = "lookup"
    /\ IF outcome.status \in {"error", "thrown"}
       THEN lookupFailed(b, outcome.status)
       ELSE /\ batch' = [batch EXCEPT ![b] = lookupSucceeded(@, outcome.page)]
            /\ UNCHANGED <<history, lastRun, nextRun>>
    /\ UNCHANGED <<faults, historySeq, run, runs, cronJobs, cronTask, stats, started, now>>
    /\ UNCHANGED <<lookupVars, poolVars, setupVars, countVars, solverVars, workerVars, chatVars>>

\* executeCronJob of batch b has read the job's latest history and compared;
\* selectOk: the SELECT went through
historyCompared(b, selectOk) ==
    /\ batch[b].pc = "compare"
    /\ Statement(selectOk)
    /\ \E read1 \in getLatestLookupHistory(history, Job(batch[b]).id, selectOk) :
          batch' = [batch EXCEPT ![b] = compared(@, read1, selectOk)]
    /\ UNCHANGED <<history, lastRun, nextRun>>
    /\ UNCHANGED <<historySeq, run, runs, cronJobs, cronTask, stats, started, now>>
    /\ UNCHANGED <<lookupVars, poolVars, setupVars, countVars, solverVars, workerVars, chatVars>>

\* executeCronJob of batch b has run createLookupHistory.  writeOk: the
\* INSERT meets no database error other than a foreign key failure
historyCreated(b, writeOk) ==
    /\ batch[b].pc = "insert"
    /\ Statement(writeOk)
    /\ createLookupHistory(batch[b], writeOk)
    /\ batch' = [batch EXCEPT ![b] = created(@, inserts(batch[b], writeOk))]
    /\ UNCHANGED <<lastRun, nextRun>>
    /\ UNCHANGED <<run, runs, cronJobs, cronTask, stats, started, now>>
    /\ UNCHANGED <<lookupVars, poolVars, setupVars, countVars, solverVars, workerVars, chatVars>>

\* executeCronJob of batch b has run updateCronJob and returned; the loop
\* body counts the result and, after a success, awaits the second
\* compareWithPreviousLookup.  updateOk: the UPDATE of the run times goes through
runTimesUpdated(b, updateOk) ==
    /\ batch[b].pc = "update"
    /\ Statement(updateOk)
    /\ updateCronJob(Job(batch[b]).userId, now, calculateNextRun(now), updateOk)
    /\ LET r == executed(batch[b], updateOk)
       IN batch' = [batch EXCEPT ![b] =
             IF r.execution.success
             THEN [r EXCEPT !.pc = "recompare",
                            !.successCount = @ + 1,
                            !.log = Append(@, "ok")]
             ELSE [r EXCEPT !.pc = "notify",
                            !.failureCount = @ + 1,
                            !.log = Append(@, "ok"),
                            !.notified = NoComparison,
                            !.notices = {Head(Messages(FALSE, NoComparison))},
                            !.pending = Tail(Messages(FALSE, NoComparison))]]
    /\ UNCHANGED <<history, historySeq>>
    /\ UNCHANGED <<run, runs, cronJobs, cronTask, stats, started, now>>
    /\ UNCHANGED <<lookupVars, poolVars, setupVars, countVars, solverVars, workerVars, chatVars>>

\* sendCronJobNotification up to its first await: the first message, if
\* there is one, is handed to bot.sendMessage
firstSend(r, comparison) ==
    LET m == Messages(TRUE, comparison)
    IN [r EXCEPT !.pc = "notify",
                 !.notified = comparison,
                 !.notices = IF m = <<>> THEN {} ELSE {Head(m)},
                 !.pending = IF m = <<>> THEN <<>> ELSE Tail(m)]

\* the loop body of batch b has compared a second time, with the history as
\* it stands now, and sends the first message of the notification
comparedAgain(b, selectOk) ==
    /\ batch[b].pc = "recompare"
    /\ Statement(selectOk)
    /\ \E read2 \in getLatestLookupHistory(history, Job(batch[b]).id, selectOk) :
          LET second == compareWithPreviousLookup(read2, batch[b].current)
          IN batch' = [batch EXCEPT ![b] =
                [firstSend(@, second) EXCEPT
                    !.io = Append(@, [op |-> "read", row |-> read2.id, ok |-> selectOk])]]
    /\ UNCHANGED <<history, lastRun, nextRun>>
    /\ UNCHANGED <<historySeq, run, runs, cronJobs, cronTask, stats, started, now>>
    /\ UNCHANGED <<lookupVars, poolVars, setupVars, countVars, solverVars, workerVars, chatVars>>

\* the locals of one loop iteration go out of scope
LoopBodyEnds(r, pc2) ==
    [r EXCEPT !.pc = pc2, !.lookupStatus = "none", !.persisted = NothingPersisted,
              !.execution = FailedExecution,
              !.executed = NoComparison, !.notified = NoComparison,
              !.notices = {}, !.pending = <<>>, !.io = <<>>, !.previous = <<>>,
              !.current = <<>>, !.snapshotPlate = ""]

\* bot.sendMessage has answered a message that is followed by another one:
\* the next message is handed to bot.sendMessage
nextSend(r) ==
    [r EXCEPT !.notices = @ \cup {Head(r.pending)}, !.pending = Tail(@)]

\* faulty variant of notificationSent: after a failed job the next job
\* starts without the delay
notificationSentSkippingDelay(b, sendOk) ==
    /\ batch[b].pc = "notify"
    /\ IF sendOk /\ batch[b].pending # <<>>
       THEN /\ batch' = [batch EXCEPT ![b] = nextSend(@)]
            /\ UNCHANGED stats
       ELSE IF batch[b].i < Len(batch[b].activeJobs)
       THEN /\ batch' = [batch EXCEPT ![b] =
                            IF batch[b].execution.success
                            THEN [LoopBodyEnds(batch[b], "delay") EXCEPT !.timer = interJobDelay]
                            ELSE [LoopBodyEnds(batch[b], "lookup") EXCEPT !.i = @ + 1]]
            /\ UNCHANGED stats
       ELSE /\ batch' = [batch EXCEPT ![b] = LoopBodyEnds(batch[b], "done")]
            /\ stats' = [stats EXCEPT
                           !.successfulExecutions = @ + batch[b].successCount,
                           !.failedExecutions = @ + batch[b].failureCount]
    /\ UNCHANGED <<faults, historySeq, run, runs, cronJobs, cronTask, started, history, lastRun, nextRun, now>>
    /\ UNCHANGED <<lookupVars, poolVars, setupVars, countVars, solverVars, workerVars, chatVars>>

\* faulty variant of notificationSent: a failed job ends the batch
notificationSentAborting(b, sendOk) ==
    /\ batch[b].pc = "notify"
    /\ IF sendOk /\ batch[b].pending # <<>>
       THEN /\ batch' = [batch EXCEPT ![b] = nextSend(@)]
            /\ UNCHANGED stats
       ELSE IF batch[b].i < Len(batch[b].activeJobs) /\ batch[b].execution.success
       THEN /\ batch' = [batch EXCEPT ![b] =
                            [LoopBodyEnds(batch[b], "delay") EXCEPT !.timer = interJobDelay]]
            /\ UNCHANGED stats
       ELSE /\ batch' = [batch EXCEPT ![b] = LoopBodyEnds(batch[b], "done")]
            /\ stats' = [stats EXCEPT
                           !.successfulExecutions = @ + batch[b].successCount,
                           !.failedExecutions = @ + batch[b].failureCount]
    /\ UNCHANGED <<faults, historySeq, run, runs, cronJobs, cronTask, started, history, lastRun, nextRun, now>>
    /\ UNCHANGED <<lookupVars, poolVars, setupVars, countVars, solverVars, workerVars, chatVars>>

\* bot.sendMessage has answered the message of batch b that was in flight
\* (sendOk: it resolved), or sendCronJobNotification had nothing to send.
\* After a message that went through the next one is sent; after the last
\* one, or after a rejected one (the catch block swallows the error and
\* the messages left are not sent), the loop body ends, and the batch
\* after the last job
notificationSent(b, sendOk) ==
    /\ batch[b].pc = "notify"
    /\ IF sendOk /\ batch[b].pending # <<>>
       THEN /\ batch' = [batch EXCEPT ![b] = nextSend(@)]
            /\ UNCHANGED stats
       ELSE IF batch[b].i < Len(batch[b].activeJobs)
       THEN /\ batch' = [batch EXCEPT ![b] =
                            [LoopBodyEnds(batch[b], "delay") EXCEPT !.timer = interJobDelay]]
            /\ UNCHANGED stats
       ELSE /\ batch' = [batch EXCEPT ![b] = LoopBodyEnds(batch[b], "done")]
            /\ stats' = [stats EXCEPT
                           !.successfulExecutions = @ + batch[b].successCount,
                           !.failedExecutions = @ + batch[b].failureCount]
    /\ UNCHANGED <<faults, historySeq, run, runs, cronJobs, cronTask, started, history, lastRun, nextRun, now>>
    /\ UNCHANGED <<lookupVars, poolVars, setupVars, countVars, solverVars, workerVars, chatVars>>

\* the 2 second delay between two jobs is over: the next job's lookup starts
delayElapsed(b) ==
    /\ batch[b].pc = "delay"
    /\ batch' = [batch EXCEPT ![b].pc = "lookup", ![b].i = @ + 1, ![b].timer = 0]
    /\ UNCHANGED <<faults, historySeq, run, runs, cronJobs, cronTask, stats, started, history, lastRun, nextRun, now>>
    /\ UNCHANGED <<lookupVars, poolVars, setupVars, countVars, solverVars, workerVars, chatVars>>

\* a second passes on the database clock
clockTick ==
    /\ now < MaxClock
    /\ now' = now + 1
    /\ UNCHANGED <<faults, historySeq, run, runs, cronJobs, cronTask, stats, batch, started, history, lastRun, nextRun>>
    /\ UNCHANGED <<lookupVars, poolVars, setupVars, countVars, solverVars, workerVars, chatVars>>

\* ---------------------------------------------------------------------
\* executeAllActiveCronJobs: every active job, without notifications
\* ---------------------------------------------------------------------
\* the locals of executeCronJob go out of scope and the 1 second wait starts
RunWaits(r, success) ==
    [LoopBodyEnds(r, "delay") EXCEPT !.timer = runDelay,
                                     !.log = Append(@, IF success THEN "ok" ELSE "failed")]

\* executeAllActiveCronJobs up to the await of getAllActiveCronJobs
executeAllActiveCronJobs(dbOk) ==
    /\ runs < MaxRuns
    /\ started + runs < MaxBatches
    /\ Statement(dbOk)
    /\ run.pc \in {"idle", "done"}
    /\ runs' = runs + 1
    /\ \E activeJobs \in (IF dbOk THEN getAllActiveCronJobs(cronJobs, nextRun) ELSE {<<>>}) :
          run' = [IdleBatch EXCEPT !.pc = "query",
                                   !.querySucceeded = dbOk,
                                   !.activeJobs = activeJobs]
    /\ UNCHANGED <<historySeq, cronJobs, cronTask, stats, batch, started, history,
                   lastRun, nextRun, now>>
    /\ UNCHANGED <<lookupVars, poolVars, setupVars, countVars, solverVars, workerVars, chatVars>>

\* executeAllActiveCronJobs after the await of getAllActiveCronJobs, up to
\* the lookup of the first job
runActiveJobsReturned ==
    /\ run.pc = "query"
    /\ run' = IF ~run.querySucceeded \/ Len(run.activeJobs) = 0
              THEN [run EXCEPT !.pc = "done"]
              ELSE [run EXCEPT !.pc = "lookup", !.i = 1]
    /\ UNCHANGED <<faults, historySeq, runs, cronJobs, cronTask, stats, batch, started, history,
                   lastRun, nextRun, now>>
    /\ UNCHANGED <<lookupVars, poolVars, setupVars, countVars, solverVars, workerVars, chatVars>>

\* the lookup of the current job of the run returns or throws
runLookupReturns(outcome) ==
    /\ run.pc = "lookup"
    /\ run' = IF outcome.status \in {"error", "thrown"}
              THEN RunWaits(run, FALSE)
              ELSE lookupSucceeded(run, outcome.page)
    /\ UNCHANGED <<faults, historySeq, runs, cronJobs, cronTask, stats, batch, started, history,
                   lastRun, nextRun, now>>
    /\ UNCHANGED <<lookupVars, poolVars, setupVars, countVars, solverVars, workerVars, chatVars>>

runHistoryCompared(selectOk) ==
    /\ run.pc = "compare"
    /\ Statement(selectOk)
    /\ \E read1 \in getLatestLookupHistory(history, Job(run).id, selectOk) :
          run' = compared(run, read1, selectOk)
    /\ UNCHANGED <<historySeq, runs, cronJobs, cronTask, stats, batch, started, history,
                   lastRun, nextRun, now>>
    /\ UNCHANGED <<lookupVars, poolVars, setupVars, countVars, solverVars, workerVars, chatVars>>

runHistoryCreated(writeOk) ==
    /\ run.pc = "insert"
    /\ Statement(writeOk)
    /\ createLookupHistory(run, writeOk)
    /\ run' = created(run, inserts(run, writeOk))
    /\ UNCHANGED <<runs, cronJobs, cronTask, stats, batch, started, lastRun, nextRun, now>>
    /\ UNCHANGED <<lookupVars, poolVars, setupVars, countVars, solverVars, workerVars, chatVars>>

\* executeCronJob returns, the result is pushed and the wait starts
runRunTimesUpdated(updateOk) ==
    /\ run.pc = "update"
    /\ Statement(updateOk)
    /\ updateCronJob(Job(run).userId, now, calculateNextRun(now), updateOk)
    /\ run' = RunWaits(run, executed(run, updateOk).execution.success)
    /\ UNCHANGED <<historySeq, runs, cronJobs, cronTask, stats, batch, started, history, now>>
    /\ UNCHANGED <<lookupVars, poolVars, setupVars, countVars, solverVars, workerVars, chatVars>>

\* the wait after a job is over: the next job, or the end after the last
runDelayElapsed ==
    /\ run.pc = "delay"
    /\ run' = IF run.i < Len(run.activeJobs)
              THEN [run EXCEPT !.pc = "lookup", !.i = @ + 1, !.timer = 0]
              ELSE [run EXCEPT !.pc = "done", !.timer = 0]
    /\ UNCHANGED <<faults, historySeq, runs, cronJobs, cronTask, stats, batch, started, history,
                   lastRun, nextRun, now>>
    /\ UNCHANGED <<lookupVars, poolVars, setupVars, countVars, solverVars, workerVars, chatVars>>

\* ---------------------------------------------------------------------
\* Maintenance calls on the tables
\* ---------------------------------------------------------------------
\* DELETE FROM lookupHistory WHERE lookupTime < datetime('now', '-N days')
cleanupOldLookupHistory(daysToKeep) ==
    /\ history' = SelectSeq(history,
                     LAMBDA row : ~(row.lookupTime < now - daysToKeep * SecondsPerDay))
    /\ UNCHANGED <<faults, historySeq, run, runs, cronJobs, cronTask, stats, batch, started,
                   lastRun, nextRun, now>>
    /\ UNCHANGED <<lookupVars, poolVars, setupVars, countVars, solverVars, workerVars, chatVars>>

\* CronJobService.updateCronJobRunTimes(userId, lastRun, nextRun?): nextRunDate
\* 0 stands for an absent nextRun
updateCronJobRunTimes(userId, lastRunDate, nextRunDate, updateOk) ==
    /\ Statement(updateOk)
    /\ updateCronJob(userId, lastRunDate, nextRunDate, updateOk)
    /\ UNCHANGED <<historySeq, run, runs, cronJobs, cronTask, stats, batch, started,
                   history, now>>
    /\ UNCHANGED <<lookupVars, poolVars, setupVars, countVars, solverVars, workerVars, chatVars>>

CronNext ==
    \/ start
    \/ stop
    \/ \E dbOk \in BOOLEAN : cronTick(dbOk)
    \/ \E dbOk \in BOOLEAN : executeNow(dbOk)
    \/ \E b \in Batches : activeJobsReturned(b)
    \/ \E b \in Batches, outcome \in LookupOutcomes : lookupReturns(b, outcome)
    \/ \E b \in Batches, selectOk \in BOOLEAN : historyCompared(b, selectOk)
    \/ \E b \in Batches, writeOk \in BOOLEAN : historyCreated(b, writeOk)
    \/ \E b \in Batches, updateOk \in BOOLEAN : runTimesUpdated(b, updateOk)
    \/ \E b \in Batches, selectOk \in BOOLEAN : comparedAgain(b, selectOk)
    \/ \E b \in Batches, sendOk \in BOOLEAN : notificationSent(b, sendOk)
    \/ \E b \in Batches : delayElapsed(b)
    \/ clockTick
    \/ \E dbOk \in BOOLEAN : executeAllActiveCronJobs(dbOk)
    \/ runActiveJobsReturned
    \/ \E outcome \in LookupOutcomes : runLookupReturns(outcome)
    \/ \E selectOk \in BOOLEAN : runHistoryCompared(selectOk)
    \/ \E writeOk \in BOOLEAN : runHistoryCreated(writeOk)
    \/ \E updateOk \in BOOLEAN : runRunTimesUpdated(updateOk)
    \/ runDelayElapsed
    \/ \E daysToKeep \in CleanupDays : cleanupOldLookupHistory(daysToKeep)
    \/ \E userId \in {1, 2}, nextRunDate \in {0, calculateNextRun(now)}, updateOk \in BOOLEAN :
          updateCronJobRunTimes(userId, now, nextRunDate, updateOk)

\* the scheduler, the runs of executeAllActiveCronJobs and the maintenance
\* calls, with a database whose statements can fail
SpecCron == Init /\ [][CronNext]_vars

\* the steps of the batches other than the lookup when every database
\* statement goes through
StepsAfterLookup ==
    \/ \E b \in Batches : activeJobsReturned(b)
    \/ \E b \in Batches : historyCompared(b, TRUE)
    \/ \E b \in Batches : historyCreated(b, TRUE)
    \/ \E b \in Batches : runTimesUpdated(b, TRUE)
    \/ \E b \in Batches : comparedAgain(b, TRUE)
    \/ \E b \in Batches, sendOk \in BOOLEAN : notificationSent(b, sendOk)
    \/ \E b \in Batches : delayElapsed(b)

\* lookup outcomes of the scenarios with a clock or with changing jobs
FewOutcomes ==
    {[status |-> "ok", page |-> PageNone], [status |-> "ok", page |-> PageB],
     [status |-> "error", page |-> PageNone]}

PagesNext ==
    \/ executeNow(TRUE)
    \/ \E b \in Batches, outcome \in LookupOutcomes : lookupReturns(b, outcome)
    \/ StepsAfterLookup

\* manually triggered batches, with a database that answers, on every page
\* the site can answer with
SpecPages == Init /\ [][PagesNext]_vars

TicksNext ==
    \/ start
    \/ stop
    \/ cronTick(TRUE)
    \/ executeNow(TRUE)
    \/ \E b \in Batches, outcome \in BlockOutcomes : lookupReturns(b, outcome)
    \/ StepsAfterLookup

\* the scheduler with ticks and manual triggers, with a database that answers
\* and pages on which every block is found
SpecTicks == Init /\ [][TicksNext]_vars

FaultsNext ==
    \/ \E dbOk \in BOOLEAN : executeNow(dbOk)
    \/ \E b \in Batches : activeJobsReturned(b)
    \/ \E b \in Batches, outcome \in BlockOutcomes : lookupReturns(b, outcome)
    \/ \E b \in Batches, selectOk \in BOOLEAN : historyCompared(b, selectOk)
    \/ \E b \in Batches, writeOk \in BOOLEAN : historyCreated(b, writeOk)
    \/ \E b \in Batches, updateOk \in BOOLEAN : runTimesUpdated(b, updateOk)
    \/ \E b \in Batches, selectOk \in BOOLEAN : comparedAgain(b, selectOk)
    \/ \E b \in Batches, sendOk \in BOOLEAN : notificationSent(b, sendOk)
    \/ \E b \in Batches : delayElapsed(b)

\* manually triggered batches with a database whose statements can fail
SpecFaults == Init /\ [][FaultsNext]_vars

ClockNext ==
    \/ executeNow(TRUE)
    \/ \E b \in Batches, outcome \in FewOutcomes : lookupReturns(b, outcome)
    \/ StepsAfterLookup
    \/ clockTick
    \/ \E daysToKeep \in CleanupDays : cleanupOldLookupHistory(daysToKeep)

\* manually triggered batches while the clock advances and old history is
\* cleaned up
SpecClock == Init /\ [][ClockNext]_vars

RunsNext ==
    \/ executeNow(TRUE)
    \/ \E b \in Batches, outcome \in BlockOutcomes : lookupReturns(b, outcome)
    \/ StepsAfterLookup
    \/ executeAllActiveCronJobs(TRUE)
    \/ runActiveJobsReturned
    \/ \E outcome \in BlockOutcomes : runLookupReturns(outcome)
    \/ runHistoryCompared(TRUE)
    \/ runHistoryCreated(TRUE)
    \/ runRunTimesUpdated(TRUE)
    \/ runDelayElapsed
    \/ \E userId \in {1, 2}, nextRunDate \in {0, calculateNextRun(now)} :
          updateCronJobRunTimes(userId, now, nextRunDate, TRUE)

\* a batch of the scheduler next to a run of executeAllActiveCronJobs and to
\* calls of updateCronJobRunTimes
SpecRuns == Init /\ [][RunsNext]_vars

\* ---------------------------------------------------------------------
\* The user's changes of a cron job while the scheduler runs
\* ---------------------------------------------------------------------
\* CronJobService.updateCronJob(userId, updates) with updates of plate,
\* vehicleType and isActive: DatabaseManager.updateCronJob runs the UPDATE
\* and the SELECT of its answer in one synchronous block; updateOk: the
\* statement meets no database error
updateCronJobFields(userId, updates, updateOk) ==
    /\ cronJobs' = IF updateOk THEN updateCronJobRows(cronJobs, userId, updates)
                   ELSE cronJobs
    /\ UNCHANGED <<faults, historySeq, run, runs, cronTask, stats, batch, started, history, lastRun,
                   nextRun, now>>
    /\ UNCHANGED <<lookupVars, poolVars, setupVars, countVars, solverVars, workerVars, chatVars>>

\* CronJobService.disableCronJob
disableCronJob(userId, updateOk) ==
    updateCronJobFields(userId, [isActive |-> FALSE], updateOk)

\* CronJobService.enableCronJob
enableCronJob(userId, updateOk) ==
    updateCronJobFields(userId, [isActive |-> TRUE], updateOk)

\* setupCronJob up to its first await: the existence check has run
setupCronJob(c, userId, p, vt, readOk) ==
    /\ setupCall[c].pc = "idle"
    /\ setupCall' = [setupCall EXCEPT ![c] =
                        [pc |-> "checked", userId |-> userId, plate |-> p,
                         vehicleType |-> vt,
                         existing |-> getCronJobByUserId(cronJobs, userId, readOk)]]
    /\ UNCHANGED cronVars
    /\ UNCHANGED <<lookupVars, poolVars, countVars, solverVars, workerVars, chatVars>>

\* the rest of setupCronJob: when the check found a row the user's rows are
\* updated to the plate and the vehicle type and made active, else a row is
\* inserted; writeOk: the statement meets no database error
setupContinues(c, writeOk) ==
    LET call == setupCall[c]
        updates == [plate |-> call.plate, vehicleType |-> call.vehicleType,
                    isActive |-> TRUE]
    IN /\ call.pc = "checked"
       /\ setupCall' = [setupCall EXCEPT ![c] = [IdleSetup EXCEPT !.pc = "done"]]
       /\ cronJobs' =
            IF ~writeOk THEN cronJobs
            ELSE IF call.existing THEN updateCronJobRows(cronJobs, call.userId, updates)
            ELSE createCronJob(cronJobs, call.userId, call.plate, call.vehicleType)
       /\ UNCHANGED <<faults, historySeq, run, runs, cronTask, stats, batch, started, history,
                      lastRun, nextRun, now>>
       /\ UNCHANGED <<lookupVars, poolVars, countVars, solverVars, workerVars, chatVars>>

\* the users who change their job while the scheduler runs
ChangingUsers == {1}

\* the updates of CronJobService.updateCronJob calls
JobUpdates == {[plate |-> "30A12345", vehicleType |-> "1"]}

JobsNext ==
    \/ executeNow(TRUE)
    \/ \E b \in Batches, outcome \in FewOutcomes : lookupReturns(b, outcome)
    \/ StepsAfterLookup
    \/ \E userId \in ChangingUsers : disableCronJob(userId, TRUE)
    \/ \E userId \in ChangingUsers : enableCronJob(userId, TRUE)
    \/ \E userId \in ChangingUsers, updates \in JobUpdates :
          updateCronJobFields(userId, updates, TRUE)

\* batches of the scheduler, with a database that answers, while users
\* disable, enable and update their jobs
SpecJobs == Init /\ [][JobsNext]_vars

\* the setup call made while the scheduler runs
ResetupCalls == {1}

ResetupNext ==
    \/ executeNow(TRUE)
    \/ \E b \in Batches, outcome \in FewOutcomes : lookupReturns(b, outcome)
    \/ StepsAfterLookup
    \/ \E c \in ResetupCalls, userId \in ChangingUsers, p \in SetupPlates,
          vt \in SetupVehicleTypes :
          setupCronJob(c, userId, p, vt, TRUE)
    \/ \E c \in ResetupCalls : setupContinues(c, TRUE)

\* batches of the scheduler, with a database that answers, while a user sets
\* the cron job up again
SpecResetup == Init /\ [][ResetupNext]_vars

\* ---------------------------------------------------------------------
\* Actions of the OCR worker pool
\* ---------------------------------------------------------------------
initialize ==
    /\ pool' = [pool EXCEPT !.isInitialized = TRUE]
    /\ UNCHANGED caller
    /\ UNCHANGED <<lookupVars, cronVars, setupVars, countVars, solverVars, workerVars, chatVars>>

\* recognize up to its first await: the 100 ms sleep of the wait loop or the
\* call of the OCR engine
recognize(c) ==
    /\ caller[c] = "idle"
    /\ IF pool.currentJobs >= pool.maxConcurrent
       THEN /\ caller' = [caller EXCEPT ![c] = "waiting"]
            /\ UNCHANGED pool
       ELSE /\ caller' = [caller EXCEPT ![c] = "recognizing"]
            /\ pool' = [pool EXCEPT !.currentJobs = @ + 1]
    /\ UNCHANGED <<lookupVars, cronVars, setupVars, countVars, solverVars, workerVars, chatVars>>

\* the sleep of the wait loop is over and the loop condition is false
wakeUp(c) ==
    /\ caller[c] = "waiting"
    /\ pool.currentJobs < pool.maxConcurrent
    /\ caller' = [caller EXCEPT ![c] = "recognizing"]
    /\ pool' = [pool EXCEPT !.currentJobs = @ + 1]
    /\ UNCHANGED <<lookupVars, cronVars, setupVars, countVars, solverVars, workerVars, chatVars>>

\* the OCR engine returns or throws: the finally block
recognitionEnds(c) ==
    /\ caller[c] = "recognizing"
    /\ caller' = [caller EXCEPT ![c] = "done"]
    /\ pool' = [pool EXCEPT !.currentJobs = @ - 1]
    /\ UNCHANGED <<lookupVars, cronVars, setupVars, countVars, solverVars, workerVars, chatVars>>

cleanup ==
    /\ pool' = [pool EXCEPT !.currentJobs = 0, !.isInitialized = FALSE]
    /\ UNCHANGED caller
    /\ UNCHANGED <<lookupVars, cronVars, setupVars, countVars, solverVars, workerVars, chatVars>>

\* the caller has its result and may call recognize again
callAgain(c) ==
    /\ caller[c] = "done"
    /\ caller' = [caller EXCEPT ![c] = "idle"]
    /\ UNCHANGED pool
    /\ UNCHANGED <<lookupVars, cronVars, setupVars, countVars, solverVars, workerVars, chatVars>>

PoolNext ==
    \/ initialize
    \/ \E c \in Callers : recognize(c)
    \/ \E c \in Callers : wakeUp(c)
    \/ \E c \in Callers : recognitionEnds(c)
    \/ \E c \in Callers : callAgain(c)
    \/ cleanup

SpecPool == Init /\ [][PoolNext]_vars

\* the pool when every started recognition finishes and every sleep of the
\* wait loop ends: a waiting caller whose loop condition stays false goes on
SpecPoolFair ==
    /\ Init /\ [][PoolNext]_vars
    /\ \A c \in Callers : WF_vars(recognitionEnds(c)) /\ WF_vars(wakeUp(c))

\* ---------------------------------------------------------------------
\* The cron-job setup on an empty table
\* ---------------------------------------------------------------------
\* no user has a cron job
EmptyTableInit ==
    /\ LookupInit /\ CronIdle /\ PoolInit /\ SetupInit /\ CountsIdle /\ SolverIdle
    /\ WorkerInit /\ ChatInit
    /\ cronJobs = <<>>

SetupNext ==
    \/ \E c \in SetupCalls, userId \in {1, 2}, p \in SetupPlates, vt \in SetupVehicleTypes,
          readOk \in BOOLEAN :
          setupCronJob(c, userId, p, vt, readOk)
    \/ \E c \in SetupCalls, writeOk \in BOOLEAN : setupContinues(c, writeOk)

\* setup calls made by the bot's handlers, possibly while others are pending
SpecSetup == EmptyTableInit /\ [][SetupNext]_vars

\* ---------------------------------------------------------------------
\* Actions of the captcha solver
\* ---------------------------------------------------------------------
Called(method, defaultMethod, key, text, confidence) ==
    [pc |-> "called", method |-> method, defaultMethod |-> defaultMethod, key |-> key,
     text |-> text, confidence |-> confidence, invoked |-> <<>>,
     ocr |-> NoOut, warned |-> FALSE, out |-> NoOut]

SolverInit ==
    /\ LookupInit /\ CronInit /\ PoolInit /\ SetupInit /\ CountsIdle /\ WorkerInit
    /\ ChatInit
    /\ solver \in {Called(method, defaultMethod, key, text, confidence) :
                      method \in CaptchaMethods \cup {NoMethod},
                      defaultMethod \in CaptchaMethods, key \in BOOLEAN,
                      text \in RawTexts, confidence \in Confidences}

\* utils/captchaSolver.ts: the selected method runs and its error is rethrown
solveCaptchaDirect(engineOk, serviceOk) ==
    LET captchaMethod ==
            IF solver.method # NoMethod THEN solver.method ELSE solver.defaultMethod
        tesseract == solveWithTesseract(solver.text, solver.confidence, engineOk)
        autocaptcha == solveWithAutocaptcha(solver.key, serviceOk)
    IN /\ solver.pc = "called"
       /\ solver' =
            IF captchaMethod = "tesseract"
            THEN [solver EXCEPT !.pc = "done", !.invoked = <<"tesseract">>,
                      !.ocr = tesseract,
                      !.warned = warnsLowConfidence(solver.text, solver.confidence, engineOk),
                      !.out = tesseract]
            ELSE [solver EXCEPT !.pc = "done", !.invoked = <<"autocaptcha">>,
                      !.out = autocaptcha]
       /\ UNCHANGED <<lookupVars, cronVars, poolVars, setupVars, countVars, workerVars, chatVars>>

\* the second copy of solveCaptcha: a failed method is followed by the other one
solveCaptchaFallback(engineOk, serviceOk) ==
    LET captchaMethod ==
            IF solver.method # NoMethod THEN solver.method ELSE solver.defaultMethod
        tesseract == solveWithTesseract(solver.text, solver.confidence, engineOk)
        autocaptcha == solveWithAutocaptcha(solver.key, serviceOk)
        warned == warnsLowConfidence(solver.text, solver.confidence, engineOk)
        bothFailed == Rejected("Captcha solving failed with both methods")
    IN /\ solver.pc = "called"
       /\ solver' =
            IF captchaMethod = "tesseract"
            THEN IF tesseract.ok \/ ~solver.key
                 THEN [solver EXCEPT !.pc = "done", !.invoked = <<"tesseract">>,
                           !.ocr = tesseract, !.warned = warned, !.out = tesseract]
                 ELSE [solver EXCEPT !.pc = "done",
                           !.invoked = <<"tesseract", "autocaptcha">>,
                           !.ocr = tesseract, !.warned = warned,
                           !.out = IF autocaptcha.ok THEN autocaptcha ELSE bothFailed]
            ELSE IF autocaptcha.ok
                 THEN [solver EXCEPT !.pc = "done", !.invoked = <<"autocaptcha">>,
                           !.out = autocaptcha]
                 ELSE [solver EXCEPT !.pc = "done",
                           !.invoked = <<"autocaptcha", "tesseract">>,
                           !.ocr = tesseract, !.warned = warned,
                           !.out = IF tesseract.ok THEN tesseract ELSE bothFailed]
       /\ UNCHANGED <<lookupVars, cronVars, poolVars, setupVars, countVars, workerVars, chatVars>>

SolverNext ==
    \E engineOk \in BOOLEAN, serviceOk \in BOOLEAN :
        \/ solveCaptchaDirect(engineOk, serviceOk)
        \/ solveCaptchaFallback(engineOk, serviceOk)

\* one call of solveCaptcha with any inputs
SpecSolver == SolverInit /\ [][SolverNext]_vars

\* ---------------------------------------------------------------------
\* Actions on the global OCR worker
\* ---------------------------------------------------------------------
\* solveWithTesseract up to its first await: createWorker when the module
\* variable is null, else worker.recognize
solveStarts(c) ==
    /\ solve[c] = "idle"
    /\ solve' = [solve EXCEPT ![c] = IF worker = 0 THEN "creating" ELSE "recognizing"]
    /\ UNCHANGED <<worker, workers, cleaning>>
    /\ UNCHANGED <<lookupVars, cronVars, poolVars, setupVars, countVars, solverVars, chatVars>>

\* createWorker has resolved: the new worker is assigned to the module
\* variable and setParameters is called on it
workerCreated(c) ==
    /\ solve[c] = "creating"
    /\ worker' = c
    /\ workers' = workers \cup {c}
    /\ solve' = [solve EXCEPT ![c] = "configuring"]
    /\ UNCHANGED cleaning
    /\ UNCHANGED <<lookupVars, cronVars, poolVars, setupVars, countVars, solverVars, chatVars>>

\* createWorker has rejected: the catch block throws, the module variable
\* stays null
createWorkerRejected(c) ==
    /\ solve[c] = "creating"
    /\ solve' = [solve EXCEPT ![c] = "failed"]
    /\ UNCHANGED <<worker, workers, cleaning>>
    /\ UNCHANGED <<lookupVars, cronVars, poolVars, setupVars, countVars, solverVars, chatVars>>

\* setParameters has settled. When it resolved the call reads the module
\* variable again for worker.recognize: a variable set to null by a cleanup
\* in the meantime makes that a TypeError, which the catch block rethrows
parametersSet(c, paramsOk) ==
    /\ solve[c] = "configuring"
    /\ solve' = [solve EXCEPT ![c] =
                    IF paramsOk /\ worker # 0 THEN "recognizing" ELSE "failed"]
    /\ UNCHANGED <<worker, workers, cleaning>>
    /\ UNCHANGED <<lookupVars, cronVars, poolVars, setupVars, countVars, solverVars, chatVars>>

\* worker.recognize has resolved, or it has rejected and the catch block
\* throws: the call returns
recognized(c, recognizeOk) ==
    /\ solve[c] = "recognizing"
    /\ solve' = [solve EXCEPT ![c] = IF recognizeOk THEN "done" ELSE "failed"]
    /\ UNCHANGED <<worker, workers, cleaning>>
    /\ UNCHANGED <<lookupVars, cronVars, poolVars, setupVars, countVars, solverVars, chatVars>>

\* cleanupTesseract up to its await: with a worker in the module variable
\* worker.terminate() is called, without one the call returns
cleanupTesseract(k) ==
    /\ cleaning[k].pc = "idle"
    /\ cleaning' = [cleaning EXCEPT ![k] =
                       IF worker # 0 THEN [pc |-> "terminating", target |-> worker]
                       ELSE [pc |-> "done", target |-> 0]]
    /\ UNCHANGED <<worker, workers, solve>>
    /\ UNCHANGED <<lookupVars, cronVars, poolVars, setupVars, countVars, solverVars, chatVars>>

\* terminate has settled. When it resolved the worker is gone and the module
\* variable is set to null, whatever it holds by now; when it rejected the
\* call throws and the variable keeps its value
workerTerminated(k, terminateOk) ==
    /\ cleaning[k].pc = "terminating"
    /\ cleaning' = [cleaning EXCEPT ![k].pc = "done"]
    /\ IF terminateOk
       THEN /\ workers' = workers \ {cleaning[k].target}
            /\ worker' = 0
       ELSE UNCHANGED <<worker, workers>>
    /\ UNCHANGED solve
    /\ UNCHANGED <<lookupVars, cronVars, poolVars, setupVars, countVars, solverVars, chatVars>>

WorkerNext ==
    \/ \E c \in Solves : solveStarts(c)
    \/ \E c \in Solves : workerCreated(c)
    \/ \E c \in Solves : createWorkerRejected(c)
    \/ \E c \in Solves, paramsOk \in BOOLEAN : parametersSet(c, paramsOk)
    \/ \E c \in Solves, recognizeOk \in BOOLEAN : recognized(c, recognizeOk)
    \/ \E k \in Cleanups : cleanupTesseract(k)
    \/ \E k \in Cleanups, terminateOk \in BOOLEAN : workerTerminated(k, terminateOk)

\* concurrent OCR solves and cleanups
SpecWorker == Init /\ [][WorkerNext]_vars

\* ---------------------------------------------------------------------
\* Actions of the Telegram conversations
\* ---------------------------------------------------------------------
OtherThanChat == <<lookupVars, cronVars, poolVars, setupVars, countVars, solverVars, workerVars>>

\* delete this.userStates[chatId]
deleteState(states, chatId) == [states EXCEPT ![chatId] = NoState]

\* CronJobService.validateCronJobData on the text of a message and the
\* vehicle type of the state
validateCronJobData(text, vt) ==
    /\ text # <<>>
    /\ Len(cleanPlate(text)) >= 4
    /\ Len(cleanPlate(text)) <= 12
    /\ vt \in {"1", "2", "3"}

\* /lookup, and the callbacks new_search and start_search once the keyboard
\* was removed: a fresh state
startSearch(chatId) ==
    /\ userStates' = [userStates EXCEPT ![chatId] = NewState("ASK_VEHICLE_TYPE", "")]
    /\ UNCHANGED handler
    /\ UNCHANGED OtherThanChat

\* callback change_vehicle_type, once answerCallbackQuery has resolved: a chat
\* that has a state goes back to the choice of the vehicle type and keeps
\* its plate
changeVehicleType(chatId) ==
    /\ userStates[chatId] # NoState
    /\ userStates' = [userStates EXCEPT ![chatId].step = "ASK_VEHICLE_TYPE"]
    /\ UNCHANGED handler
    /\ UNCHANGED OtherThanChat

\* callback vehicle_type_N: only when the chat has a state
vehicleTypeSelected(chatId, vt) ==
    /\ userStates[chatId] # NoState
    /\ userStates' = [userStates EXCEPT ![chatId].vehicleType = vt,
                                        ![chatId].step = "ASK_PLATE"]
    /\ UNCHANGED handler
    /\ UNCHANGED OtherThanChat

\* callback cron_vehicle_type_N: only when the chat has a state
cronVehicleTypeSelected(chatId, vt) ==
    /\ userStates[chatId] # NoState
    /\ userStates' = [userStates EXCEPT ![chatId].vehicleType = vt,
                                        ![chatId].step = "CRON_ASK_PLATE"]
    /\ UNCHANGED handler
    /\ UNCHANGED OtherThanChat

\* callback cancel_cron_setup, once answerCallbackQuery has resolved
cancelCronSetup(chatId) ==
    /\ userStates' = deleteState(userStates, chatId)
    /\ UNCHANGED handler
    /\ UNCHANGED OtherThanChat

\* /cron_setup and the callback start_cron_setup: startCronSetup up to the
\* await of registerOrGetUser
startCronSetup(h, chatId) ==
    /\ handler[h].pc = "idle"
    /\ handler' = [handler EXCEPT ![h] = Awaiting("register", chatId)]
    /\ UNCHANGED userStates
    /\ UNCHANGED OtherThanChat

\* registerOrGetUser has settled: with a user the state of a cron setup is
\* stored; the messages that follow do not touch userStates
userRegistered(h, registerOk) ==
    /\ handler[h].pc = "register"
    /\ userStates' = IF registerOk
                     THEN [userStates EXCEPT ![handler[h].chat] =
                              NewState("CRON_ASK_VEHICLE_TYPE", "cron_setup")]
                     ELSE userStates
    /\ handler' = [handler EXCEPT ![h] = IdleHandler]
    /\ UNCHANGED OtherThanChat

\* /cron_update: startCronUpdate up to the await of getCronJobStatus
startCronUpdate(h, chatId) ==
    /\ handler[h].pc = "idle"
    /\ handler' = [handler EXCEPT ![h] = Awaiting("status", chatId)]
    /\ UNCHANGED userStates
    /\ UNCHANGED OtherThanChat

\* getCronJobStatus has settled: for a user with a cron job the state of a
\* cron update is stored
cronJobStatusReturned(h, hasCronJob) ==
    /\ handler[h].pc = "status"
    /\ userStates' = IF hasCronJob
                     THEN [userStates EXCEPT ![handler[h].chat] =
                              NewState("CRON_ASK_VEHICLE_TYPE", "cron_update")]
                     ELSE userStates
    /\ handler' = [handler EXCEPT ![h] = IdleHandler]
    /\ UNCHANGED OtherThanChat

\* a text message of a chat that has a state: handleUserMessage up to its
\* first await. At step ASK_PLATE of a lookup that is lookupByPlate; at step
\* CRON_ASK_PLATE of a cron setup or update it is the notice of an invalid
\* plate or getUserByChatId. At any other step nothing is done
handleUserMessage(h, chatId, text) ==
    LET userState == userStates[chatId]
    IN /\ handler[h].pc = "idle"
       /\ \/ /\ userState.step = "ASK_PLATE"
             /\ userState.action \notin CronActions
             /\ userStates' = [userStates EXCEPT ![chatId].plate = text,
                                                 ![chatId].step = "FETCHING"]
             /\ handler' = [handler EXCEPT ![h] = Awaiting("lookup", chatId)]
          \/ /\ userState.step = "CRON_ASK_PLATE"
             /\ userState.action \in CronActions
             /\ userStates' = [userStates EXCEPT ![chatId].plate = text]
             /\ handler' = [handler EXCEPT ![h] =
                               IF validateCronJobData(text, userState.vehicleType)
                               THEN Awaiting("getUser", chatId)
                               ELSE Awaiting("invalid", chatId)]
       /\ UNCHANGED OtherThanChat

\* callback refresh_vehicleType_plate, once the keyboard was removed: the
\* notice of the update is awaited; the lookup uses a state of its own
refreshPressed(h, chatId) ==
    /\ handler[h].pc = "idle"
    /\ handler' = [handler EXCEPT ![h] = Awaiting("notice", chatId)]
    /\ UNCHANGED userStates
    /\ UNCHANGED OtherThanChat

\* callback retry_search, once answerCallbackQuery has resolved: with a plate
\* and a vehicle type in the state the step becomes FETCHING and the notice
\* of the retry is awaited, else a new search starts
retrySearch(h, chatId) ==
    /\ IF /\ userStates[chatId] # NoState
          /\ userStates[chatId].plate # <<>>
          /\ userStates[chatId].vehicleType # ""
       THEN /\ handler[h].pc = "idle"
            /\ userStates' = [userStates EXCEPT ![chatId].step = "FETCHING"]
            /\ handler' = [handler EXCEPT ![h] = Awaiting("notice", chatId)]
       ELSE /\ userStates' = [userStates EXCEPT ![chatId] =
                                 NewState("ASK_VEHICLE_TYPE", "")]
            /\ UNCHANGED handler
    /\ UNCHANGED OtherThanChat

\* the notice of a refresh or a retry has settled: when it was sent
\* lookupByPlate is called, else the handler throws
noticeSent(h, sendOk) ==
    /\ handler[h].pc = "notice"
    /\ handler' = [handler EXCEPT ![h] =
                      IF sendOk THEN Awaiting("lookup", handler[h].chat)
                      ELSE Awaiting("thrown", handler[h].chat)]
    /\ UNCHANGED userStates
    /\ UNCHANGED OtherThanChat

\* lookupByPlate resolves and sendViolationResults runs up to its first
\* await: the error message of handleLookupError for an error result, else
\* the messages of the result
lookupResolves(h, res) ==
    /\ handler[h].pc = "lookup"
    /\ handler' = [handler EXCEPT ![h] =
                      IF res = "error"
                      THEN [Awaiting("error", handler[h].chat) EXCEPT !.inTry = TRUE]
                      ELSE [Awaiting("results", handler[h].chat) EXCEPT !.res = res]]
    /\ UNCHANGED userStates
    /\ UNCHANGED OtherThanChat

\* lookupByPlate rejects and the catch block runs handleLookupError up to
\* the await of its message
lookupRejects(h) ==
    /\ handler[h].pc = "lookup"
    /\ handler' = [handler EXCEPT ![h] = Awaiting("error", handler[h].chat)]
    /\ UNCHANGED userStates
    /\ UNCHANGED OtherThanChat

\* the messages of sendViolationResults have settled. When they were sent, the
\* branch of a non-empty list deletes the state and the branch of an empty
\* list has returned after its message; when a message was rejected the
\* catch block runs handleLookupError up to the await of its message
resultsSent(h, sendOk) ==
    /\ handler[h].pc = "results"
    /\ IF sendOk
       THEN /\ userStates' = IF handler[h].res = "none" THEN userStates
                             ELSE deleteState(userStates, handler[h].chat)
            /\ handler' = [handler EXCEPT ![h] = IdleHandler]
       ELSE /\ handler' = [handler EXCEPT ![h] = Awaiting("error", handler[h].chat)]
            /\ UNCHANGED userStates
    /\ UNCHANGED OtherThanChat

\* the message of handleLookupError has settled. When it was sent the state
\* is deleted; when it was rejected inside sendViolationResults the catch
\* block runs handleLookupError again, and when it was rejected in the catch
\* block the handler throws
errorShown(h, sendOk) ==
    /\ handler[h].pc = "error"
    /\ IF sendOk
       THEN /\ userStates' = deleteState(userStates, handler[h].chat)
            /\ handler' = [handler EXCEPT ![h] = IdleHandler]
       ELSE /\ handler' = [handler EXCEPT ![h] =
                              IF handler[h].inTry THEN Awaiting("error", handler[h].chat)
                              ELSE Awaiting("thrown", handler[h].chat)]
            /\ UNCHANGED userStates
    /\ UNCHANGED OtherThanChat

\* the notice of an invalid plate has settled: when it was sent the handler
\* returns and the chat stays at CRON_ASK_PLATE, else the catch block sends
\* its message
invalidPlateNoticed(h, sendOk) ==
    /\ handler[h].pc = "invalid"
    /\ handler' = [handler EXCEPT ![h] =
                      IF sendOk THEN IdleHandler ELSE Awaiting("caught", handler[h].chat)]
    /\ UNCHANGED userStates
    /\ UNCHANGED OtherThanChat

\* getUserByChatId has settled: with the user setupCronJob is called, without
\* one a message is sent, and on a rejection the catch block sends its message
userFound(h, outcome) ==
    /\ handler[h].pc = "getUser"
    /\ handler' = [handler EXCEPT ![h] =
                      IF outcome = "found" THEN Awaiting("setup", handler[h].chat)
                      ELSE IF outcome = "missing" THEN Awaiting("report", handler[h].chat)
                      ELSE Awaiting("caught", handler[h].chat)]
    /\ UNCHANGED userStates
    /\ UNCHANGED OtherThanChat

\* setupCronJob has returned its result: the confirmation or the error
\* message is sent
setupReturned(h) ==
    /\ handler[h].pc = "setup"
    /\ handler' = [handler EXCEPT ![h] = Awaiting("report", handler[h].chat)]
    /\ UNCHANGED userStates
    /\ UNCHANGED OtherThanChat

\* the message about the setup has settled: when it was sent the state is
\* deleted, else the catch block sends its message
setupReported(h, sendOk) ==
    /\ handler[h].pc = "report"
    /\ IF sendOk
       THEN /\ userStates' = deleteState(userStates, handler[h].chat)
            /\ handler' = [handler EXCEPT ![h] = IdleHandler]
       ELSE /\ handler' = [handler EXCEPT ![h] = Awaiting("caught", handler[h].chat)]
            /\ UNCHANGED userStates
    /\ UNCHANGED OtherThanChat

\* the message of the catch block of a cron setup or update has settled:
\* when it was sent the state is deleted, else the handler throws
errorCaught(h, sendOk) ==
    /\ handler[h].pc = "caught"
    /\ userStates' = IF sendOk THEN deleteState(userStates, handler[h].chat)
                     ELSE userStates
    /\ handler' = [handler EXCEPT ![h] =
                      IF sendOk THEN IdleHandler ELSE Awaiting("thrown", handler[h].chat)]
    /\ UNCHANGED OtherThanChat

\* the rejection of a message leaves the handler: nothing catches it and the
\* state stays as it is
handlerThrows(h) ==
    /\ handler[h].pc = "thrown"
    /\ handler' = [handler EXCEPT ![h] = IdleHandler]
    /\ UNCHANGED userStates
    /\ UNCHANGED OtherThanChat

ChatNext ==
    \/ \E chatId \in Chats : startSearch(chatId)
    \/ \E chatId \in Chats : changeVehicleType(chatId)
    \/ \E chatId \in Chats, vt \in ChatVehicleTypes : vehicleTypeSelected(chatId, vt)
    \/ \E chatId \in Chats, vt \in ChatVehicleTypes : cronVehicleTypeSelected(chatId, vt)
    \/ \E chatId \in Chats : cancelCronSetup(chatId)
    \/ \E h \in Handlers, chatId \in Chats : startCronSetup(h, chatId)
    \/ \E h \in Handlers, registerOk \in BOOLEAN : userRegistered(h, registerOk)
    \/ \E h \in Handlers, chatId \in Chats : startCronUpdate(h, chatId)
    \/ \E h \in Handlers, hasCronJob \in BOOLEAN : cronJobStatusReturned(h, hasCronJob)
    \/ \E h \in Handlers, chatId \in Chats, text \in ChatPlates :
          handleUserMessage(h, chatId, text)
    \/ \E h \in Handlers, chatId \in Chats : refreshPressed(h, chatId)
    \/ \E h \in Handlers, chatId \in Chats : retrySearch(h, chatId)
    \/ \E h \in Handlers, sendOk \in BOOLEAN : noticeSent(h, sendOk)
    \/ \E h \in Handlers, res \in LookupResults : lookupResolves(h, res)
    \/ \E h \in Handlers : lookupRejects(h)
    \/ \E h \in Handlers, sendOk \in BOOLEAN : resultsSent(h, sendOk)
    \/ \E h \in Handlers, sendOk \in BOOLEAN : errorShown(h, sendOk)
    \/ \E h \in Handlers, sendOk \in BOOLEAN : invalidPlateNoticed(h, sendOk)
    \/ \E h \in Handlers, outcome \in {"found", "missing", "throws"} : userFound(h, outcome)
    \/ \E h \in Handlers : setupReturned(h)
    \/ \E h \in Handlers, sendOk \in BOOLEAN : setupReported(h, sendOk)
    \/ \E h \in Handlers, sendOk \in BOOLEAN : errorCaught(h, sendOk)
    \/ \E h \in Handlers : handlerThrows(h)

\* the conversations of the bot
SpecChat == Init /\ [][ChatNext]_vars

\* ---------------------------------------------------------------------
\* calculateViolationCounts applied to the violations of a result page
\* ---------------------------------------------------------------------
CountsInit ==
    /\ LookupInit /\ CronInit /\ PoolInit /\ SetupInit /\ SolverIdle /\ WorkerInit
    /\ ChatInit
    /\ statuses \in StatusLists
    /\ counts = NoCounts

countViolations ==
    /\ counts = NoCounts
    /\ counts' = calculateViolationCounts(statuses)
    /\ UNCHANGED statuses
    /\ UNCHANGED <<lookupVars, cronVars, poolVars, setupVars, solverVars, workerVars, chatVars>>

CountsNext == countViolations

SpecCounts == CountsInit /\ [][CountsNext]_vars

\* ---------------------------------------------------------------------
\* Claims about the retry orchestrator and the session client
\* ---------------------------------------------------------------------
\* call c went through the retry loop and has returned
Returned(c) == pc[c] = "done" /\ result[c].status \in {"ok", "error"}

\* another call than c is waiting for an answer of the site
OtherCallInFlight(c) == \E d \in Calls \ {c} : pc[d] \in NetworkSteps

\* C1: in every attempt numbered 2 or higher, the captcha text submitted to
\* validation is the text solved from the captcha image fetched in that same
\* attempt, never the manual text supplied by the caller.
C1_RetrySubmitsFreshCaptcha ==
    \A c \in Calls :
        (lastReq[c].kind = "validate" /\ lastReq[c].attempt >= 2)
            => /\ lastReq[c].captcha.origin = "ocr"
               /\ lastReq[c].captcha.image = lastReq[c].attempt

\* C2: a lookup call runs at most maxRetries + 1 = 6 attempts, and exactly 6
\* when every attempt fails on an HTTP 5xx answer.
C2_AttemptBound ==
    \A c \in Calls :
        /\ attemptsRun[c] <= 6
        /\ (Returned(c) /\ only5xx[c]) => attemptsRun[c] = 6

\* the last answered request of call c is the one its current attempt ended on
LastRequestOfAttempt(c, kind) ==
    /\ lastReq[c].kind = kind
    /\ lastReq[c].call = c
    /\ lastReq[c].attempt = attempt[c]

\* C3: an HTTP 404 or 403 answer to the validation or the result request on
\* an attempt numbered at most maxRetries is followed by another attempt, not
\* by an error result.
C3_NotFoundForbiddenRetried ==
    \A c \in Calls :
        (/\ \E kind \in {"validate", "result"} : LastRequestOfAttempt(c, kind)
         /\ lastOut[c].kind = "http"
         /\ lastOut[c].status \in {403, 404}
         /\ attempt[c] <= maxRetries)
            => pc[c] = "backoff"

\* C4: a non-success answer of the AJAX validation on an attempt numbered at
\* most maxRetries is followed by another attempt, whatever the answer's body.
C4_RejectedCaptchaRetried ==
    \A c \in Calls :
        (/\ LastRequestOfAttempt(c, "validate")
         /\ lastOut[c].kind = "rejected"
         /\ attempt[c] <= maxRetries)
            => pc[c] = "backoff"

\* C7: every request of a lookup call carries only cookies obtained within
\* that call: none, or the session cookie set by an answer to that call.
C7_NoSessionReuseAcrossCalls ==
    \A c \in Calls : lastReq[c].kind # "none" => lastReq[c].cookie \in {0, c}

\* C10: in every result of the retry loop totalRetryCaptcha is the number of
\* attempts that forced a captcha refresh (attempts 2 and higher); after 6
\* attempts that all failed on a server error it is 5.
C10_RetryCountIsRefreshCount ==
    \A c \in Calls :
        Returned(c) =>
            /\ result[c].totalRetryCaptcha = refreshes[c]
            /\ (only5xx[c] /\ attemptsRun[c] = 6) => result[c].totalRetryCaptcha = 5

\* C12: any failure of the session-initialisation request (HTTP error
\* status, timeout, connection error) on an attempt numbered at most
\* maxRetries is followed by another attempt.
C12_SessionFailureRetried ==
    \A c \in Calls :
        (/\ LastRequestOfAttempt(c, "initSession")
         /\ lastOut[c].kind # "ok"
         /\ attempt[c] <= maxRetries)
            => pc[c] = "backoff"

\* the captcha of the current attempt of call c was fetched and its solving
\* failed
SolveFailed(c) ==
    /\ LastRequestOfAttempt(c, "captcha")
    /\ lastOut[c].kind = "ok"
    /\ pc[c] \notin {"solve", "validate"}

\* C13: when captcha solving fails in an attempt numbered at most maxRetries
\* the orchestrator performs another attempt instead of returning an error
\* result.
C13_SolveFailureRetried ==
    \A c \in Calls : (SolveFailed(c) /\ attempt[c] <= maxRetries) => pc[c] = "backoff"

\* C14: in an attempt that got past session initialisation the captcha image
\* is fetched if and only if the attempt number is at least 2 or the caller
\* supplied no manual captcha.
C14_CaptchaFetchedIffRetryOrNoManual ==
    \A c \in Calls :
        /\ LastRequestOfAttempt(c, "validate")
              => ((image[c] = attempt[c])
                     <=> (attempt[c] >= 2 \/ ~Truthy(options[c].captchaText)))
        /\ (LastRequestOfAttempt(c, "initSession") /\ pc[c] = "validate")
              => (attempt[c] = 1 /\ Truthy(options[c].captchaText))
        /\ (LastRequestOfAttempt(c, "initSession") /\ lastOut[c].kind = "ok"
                /\ (attempt[c] >= 2 \/ ~Truthy(options[c].captchaText)))
              => pc[c] = "captcha"
        /\ (LastRequestOfAttempt(c, "captcha") /\ attempt[c] = 1)
              => ~Truthy(options[c].captchaText)

\* a retry with a manual captcha at hand has fetched a captcha image, while
\* another call was waiting for the site
C14_Witness ==
    \E c \in Calls :
        /\ LastRequestOfAttempt(c, "validate")
        /\ attempt[c] >= 2
        /\ image[c] = attempt[c]
        /\ lastReq[c].captcha.origin = "manual"
        /\ OtherCallInFlight(c)

\* C15: within one attempt the network calls are ordered: the captcha fetch
\* starts only after session initialisation has completed, validation only
\* with a captcha text at hand, and the result page is requested only after
\* validation has succeeded in that attempt.
C15_CallsInOrder ==
    \A c \in Calls :
        /\ lastReq[c].kind = "initSession" => lastReq[c].after = {}
        /\ lastReq[c].kind = "captcha" => lastReq[c].after = {"initSession"}
        /\ lastReq[c].kind = "validate" =>
              /\ "initSession" \in lastReq[c].after
              /\ lastReq[c].after \subseteq {"initSession", "captcha"}
              /\ Truthy(lastReq[c].captcha)
        /\ lastReq[c].kind = "result" =>
              /\ {"initSession", "validate"} \subseteq lastReq[c].after
              /\ "result" \notin lastReq[c].after

\* the result page of a retry has been requested after the three calls
\* before it, while another call was waiting for the site
C15_Witness ==
    \E c \in Calls :
        /\ lastReq[c].kind = "result"
        /\ lastReq[c].attempt >= 2
        /\ lastReq[c].after = {"initSession", "captcha", "validate"}
        /\ OtherCallInFlight(c)

\* C20: a call with a vehicleType outside {"1","2","3"}, or with an empty
\* plate or vehicleType, fails immediately: no request is issued and no
\* attempt, retry or backoff takes place.
C20_InvalidInputFailsAtOnce ==
    \A c \in Calls :
        (pc[c] # "idle" /\ (vehicleType[c] \notin {"1", "2", "3"} \/ plate[c] = <<>>))
            => /\ pc[c] = "done"
               /\ result[c].status = "thrown"
               /\ lastReq[c] = NoReq
               /\ attemptsRun[c] = 0
               /\ refreshes[c] = 0
               /\ waited[c] = 0

\* a call with vehicleType "9" made while an earlier call is waiting for the
\* site
C20_Witness ==
    \E c \in Calls :
        /\ vehicleType[c] = "9"
        /\ plate[c] # <<>>
        /\ result[c].status = "thrown"
        /\ OtherCallInFlight(c)

\* the parameters of the REST request are missing or invalid
InvalidRequest(r) == r.plate = <<>> \/ r.vehicleType \notin {"1", "2", "3"}

\* C25: a REST lookup request with a missing or invalid parameter, including
\* a vehicleType outside 1, 2 and 3, is answered with HTTP 400 and performs
\* no request against the target site.
C25_InvalidRequestAnswered400 ==
    [][\A c \in 0..MaxCalls :
          (rest'[c] # rest[c] /\ rest'[c].status # 0 /\ InvalidRequest(rest'[c]))
             => /\ rest'[c].status = 400
                /\ \A d \in Calls : lastReq'[d] \in {lastReq[d], NoReq}]_vars

\* C29: before attempt k+1 (k >= 1) the orchestrator waits exactly k * 2000
\* ms; it starts no wait after the final attempt or after a non-retryable
\* error, so a call that has returned has no wait behind its last attempt.
C29_LinearBackoff ==
    [][\A c \in Calls :
          /\ (attempt[c] >= 1 /\ attempt'[c] = attempt[c] + 1)
                => (pc[c] = "backoff" /\ waited[c] = attempt[c] * 2000)
          /\ (waited'[c] # waited[c] /\ waited'[c] # 0)
                => /\ pc'[c] = "backoff"
                   /\ attempt[c] <= 5
                   /\ isRetryableError(lastError'[c])
          /\ pc'[c] = "done" => waited'[c] = 0]_vars

\* a call waited 2000 ms before its second attempt, and that attempt ended
\* with an error that is not retryable: the call has returned the error
\* without another wait
C29_Witness ==
    \E c \in Calls :
        /\ pc[c] = "done"
        /\ attempt[c] = 2
        /\ attemptsRun[c] = 2
        /\ result[c].status = "error"
        /\ ~isRetryableError(lastError[c])
        /\ waited[c] = 0

\* the plate without whitespace and dashes, letters in upper case
Normalised(p) ==
    LET kept == SelectSeq(p, LAMBDA ch : ch \notin {" ", "-"})
    IN [i \in 1..Len(kept) |-> ToUpperChar(kept[i])]

\* C30: every network call of a lookup is made after the plate was
\* normalised, and the plate the lookup uses is the input with all whitespace
\* and dashes removed and its letters in upper case: "51k-67179 " is used as
\* "51K67179". The captcha validation, the one call that sends the plate,
\* posts that plate in the field BienKS, followed by the single trailing
\* space the form of the site requires.
C30_NetworkCallsUseNormalisedPlate ==
    \A c \in Calls :
        lastReq[c].kind # "none" =>
            /\ plate[c] = Normalised(input[c])
            /\ input[c] = PlateRaw => plate[c] = <<"5", "1", "K", "6", "7", "1", "7", "9">>
            /\ lastReq[c].kind = "validate" =>
                  /\ lastReq[c].BienKS = Normalised(input[c]) \o <<" ">>
                  /\ input[c] = PlateRaw =>
                        lastReq[c].BienKS
                           = <<"5", "1", "K", "6", "7", "1", "7", "9", " ">>

\* the site has answered the captcha validation of a lookup of "51k-67179 "
C30_Witness ==
    \E c \in Calls :
        /\ input[c] = PlateRaw
        /\ lastReq[c].kind = "validate"
        /\ lastReq[c].BienKS = <<"5", "1", "K", "6", "7", "1", "7", "9", " ">>

\* ---------------------------------------------------------------------
\* Claims about the scheduler and the diff
\* ---------------------------------------------------------------------
\* C5: within one job execution every read of the job's latest history
\* snapshot that feeds a comparison happens before the execution writes its
\* own history row.
C5_HistoryReadBeforeWrite ==
    \A b \in Batches :
        \A k, m \in DOMAIN batch[b].io :
            (batch[b].io[k].op = "write" /\ batch[b].io[m].op = "read") => m < k

\* the id of the history row written last for a job in table h, 0: none
LastWritten(h, cronJobId) ==
    LET rows == {k \in 1..Len(h) : h[k].cronJobId = cronJobId}
    IN IF rows = {} THEN 0 ELSE h[CHOOSE k \in rows : \A n \in rows : n <= k].id

\* C31: a read of a job's latest history that goes through returns the row
\* written last for that job, as the table stands at the read: so does the
\* read before an execution's write, and so does the read after it.
C31_LatestHistoryIsLastWritten ==
    [][\A b \in Batches :
          (Len(batch'[b].io) > Len(batch[b].io) /\ batch[b].pc \in {"compare", "recompare"})
          => LET read == batch'[b].io[Len(batch'[b].io)]
             IN read.ok => read.row = LastWritten(history, Job(batch[b]).id)]_vars

\* the same real-world violation: same time, location and description
SameViolation(v, w) ==
    \A f \in {"violationTime", "location", "violation"} :
        (IF f \in DOMAIN v THEN v[f] ELSE <<>>) = (IF f \in DOMAIN w THEN w[f] ELSE <<>>)

Range(seq) == {seq[k] : k \in DOMAIN seq}

\* C6: the diff does not depend on violationNumber: a violation present in
\* the previous and in the current snapshot, at whatever list positions, is
\* reported neither as added nor as removed.
C6_DiffIgnoresViolationNumber ==
    \A b \in Batches :
        batch[b].pc = "notify" =>
            \A p \in Range(batch[b].previous), c \in Range(batch[b].current) :
                SameViolation(p, c) =>
                    /\ c \notin Range(batch[b].executed.newViolations)
                    /\ p \notin Range(batch[b].executed.removedViolations)

\* the job execution of batch b has returned success and its notification
\* is about to be sent
Succeeded(b) == batch[b].pc = "notify" /\ batch[b].execution.success

\* C11: for every successful job execution the hasChanges value returned and
\* stored in the new history row is true if and only if some violation was
\* added or removed, also on the first execution of a job without history.
C11_HasChangesIffDiffNonEmpty ==
    \A b \in Batches :
        Succeeded(b) =>
            LET changed == \/ Len(batch[b].executed.newViolations) > 0
                           \/ Len(batch[b].executed.removedViolations) > 0
                written == batch[b].io[2].row
            IN /\ batch[b].execution.hasNewViolations <=> changed
               /\ \A k \in 1..Len(history) :
                     history[k].id = written => (history[k].hasNewViolations <=> changed)

\* C16: the added violations are exactly the violations of the current
\* snapshot whose identity (time, location, description) does not occur in
\* the previous snapshot, the removed ones exactly those of the previous
\* snapshot whose identity does not occur in the current one; without
\* history the previous snapshot is empty.
C16_DiffIsSetDifference ==
    \A b \in Batches :
        Succeeded(b) =>
            LET A == batch[b].previous
                B == batch[b].current
                NotInA(v) == \A p \in Range(A) : ~SameViolation(p, v)
                NotInB(v) == \A c \in Range(B) : ~SameViolation(c, v)
            IN /\ batch[b].executed.newViolations = SelectSeq(B, NotInA)
               /\ batch[b].executed.removedViolations = SelectSeq(A, NotInB)

\* the lookup of the job batch b is processing has failed
LookupFailed(b) == batch[b].lookupStatus \in {"error", "thrown"}

\* C17: when the lookup for a job fails (error result or exception) the job
\* execution returns failure, writes no history row and leaves the job's
\* lastRun and nextRun unchanged.
C17_FailedLookupLeavesNoTrace ==
    [][\A b \in Batches :
          (batch[b].pc = "lookup" /\ batch'[b].pc = "notify" /\ LookupFailed(b)')
              => /\ ~batch'[b].execution.success
                 /\ history' = history
                 /\ lastRun' = lastRun
                 /\ nextRun' = nextRun]_vars

\* a lookup failed for a job that has history and run times from before
C17_Witness ==
    \E b \in Batches :
        /\ batch[b].pc = "notify"
        /\ LookupFailed(b)
        /\ Len(history) > 0
        /\ \E k \in 1..Len(cronJobs) :
              /\ cronJobs[k].userId = batch[b].activeJobs[batch[b].i].userId
              /\ nextRun[cronJobs[k].id] > 0

\* C18: if writing the history row or updating the run times fails after a
\* successful lookup, the job execution still returns success together with
\* the lookup result.
C18_PersistenceFailureKeepsSuccess ==
    \A b \in Batches :
        (batch[b].pc = "notify" /\ batch[b].lookupStatus = "ok")
            => /\ batch[b].execution.success
               /\ batch[b].execution.lookupResult =
                      [status |-> "ok", violations |-> batch[b].current]

\* a lookup succeeded and the history row or the run times were not written
C18_Witness ==
    \E b \in Batches :
        /\ batch[b].pc = "notify"
        /\ batch[b].lookupStatus = "ok"
        /\ ~(batch[b].persisted.history /\ batch[b].persisted.runTimes)
        /\ batch[b].execution.success

\* C19: a job of a batch that fails is recorded as failed, and every
\* remaining job of the batch's active-job list is still processed.
C19_FailedJobDoesNotAbortBatch ==
    \A b \in Batches :
        /\ batch[b].failureCount =
              Cardinality({k \in DOMAIN batch[b].log : batch[b].log[k] = "failed"})
        /\ (batch[b].pc = "done" /\ batch[b].activeJobs # <<>>)
              => Len(batch[b].log) = Len(batch[b].activeJobs)

\* a batch whose first job failed has processed its second job
C19_Witness ==
    \E b \in Batches :
        /\ batch[b].pc = "done"
        /\ Len(batch[b].log) = 2
        /\ batch[b].log[1] = "failed"

\* C21: a scheduled job execution sends the user a notification only when
\* the comparison found changes; an execution that finds no changes sends
\* none.
C21_NotifiedOnlyOnChanges ==
    \A b \in Batches :
        (Succeeded(b) /\ batch[b].notices # {})
            => (batch[b].executed.hasChanges /\ batch[b].notified.hasChanges)

\* C32: when a successful execution finds violations that are new relative
\* to the snapshot stored before it, the user is sent a new-violations
\* notification listing them, and a resolved-violations notification when
\* violations were removed: when sendCronJobNotification returns, these
\* messages have been handed to the bot.
C32_NewViolationsNotified ==
    [][\A b \in Batches :
          (Succeeded(b) /\ batch'[b].pc # "notify")
              => /\ Len(batch[b].executed.newViolations) > 0
                    => /\ "new" \in batch[b].notices
                       /\ batch[b].notified.newViolations =
                              batch[b].executed.newViolations
                 /\ Len(batch[b].executed.removedViolations) > 0
                    => "removed" \in batch[b].notices]_vars

\* C24: between two consecutive jobs of a batch the scheduler waits the
\* inter-job delay of 2 seconds before it starts the next job, also when the
\* earlier job failed or raised an exception.
C24_DelayBetweenJobs ==
    [][\A b \in Batches :
          (batch[b].i >= 1 /\ batch'[b].i = batch[b].i + 1)
              => /\ batch[b].pc = "delay"
                 /\ batch[b].timer = 2000
                 /\ batch'[b].pc = "lookup"]_vars

\* the second job of a batch has started after the first one failed
C24_Witness ==
    \E b \in Batches :
        /\ batch[b].pc = "lookup"
        /\ batch[b].i = 2
        /\ batch[b].log = <<"failed">>

\* the job lookups the scheduler has started and that have not returned
LookupsInFlight == {b \in Batches : batch[b].pc = "lookup"}

\* C8: at no time are two job lookups started by the scheduler in flight,
\* also when a tick or executeNow fires while an earlier batch is running.
C8_OneLookupAtATime == Cardinality(LookupsInFlight) <= 1

\* the row of table cronJobs a job of a batch was read from
JobRowOf(job) == cronJobs[CHOOSE k \in 1..Len(cronJobs) : cronJobs[k].userId = job.userId]

\* C33: once a user's cron job is disabled the scheduler starts no further
\* lookup for it until it is enabled again, also in a batch that was in
\* progress when the job was disabled.
C33_NoLookupForDisabledJob ==
    [][\A b \in Batches :
          (batch'[b].pc = "lookup"
              /\ (batch[b].pc # "lookup" \/ batch'[b].i # batch[b].i))
          => JobRowOf(batch'[b].activeJobs[batch'[b].i]).isActive]_vars

\* C36: after a job is re-set to a different plate, an execution for the new
\* plate (the plate the job's row holds) is not compared with a snapshot
\* recorded for the old plate, and so reports no violation of the old plate
\* as removed.
C36_NoDiffAcrossPlates ==
    \A b \in Batches :
        (Succeeded(b) /\ batch[b].snapshotPlate # ""
            /\ batch[b].activeJobs[batch[b].i].plate
                  = JobRowOf(batch[b].activeJobs[batch[b].i]).plate
            /\ batch[b].snapshotPlate # batch[b].activeJobs[batch[b].i].plate)
        => /\ batch[b].previous = <<>>
           /\ batch[b].executed.removedViolations = <<>>

\* ---------------------------------------------------------------------
\* Claims about the cron-job setup
\* ---------------------------------------------------------------------
\* C22: after any sequence or interleaving of setup calls each user has at
\* most one cron job row.
C22_OneCronJobPerUser ==
    \A u \in {1, 2} :
        Cardinality({k \in 1..Len(cronJobs) : cronJobs[k].userId = u}) <= 1

\* ---------------------------------------------------------------------
\* Claims about the paid / unpaid counts
\* ---------------------------------------------------------------------
\* C23: each violation is counted in at most one of the paid and unpaid
\* buckets, so paid + unpaid is at most the total; a status containing
\* "Da xu phat" counts as paid only, one containing "Chua nop phat" as unpaid
\* only, an empty status as neither.
C23_PaidUnpaidDisjoint ==
    counts # NoCounts =>
        /\ counts.totalPaidViolations + counts.totalUnpaidViolations
              <= counts.totalViolations
        /\ statuses = <<StatusDaXuPhat>> =>
              (counts.totalPaidViolations = 1 /\ counts.totalUnpaidViolations = 0)
        /\ statuses = <<StatusChuaNopPhat>> =>
              (counts.totalPaidViolations = 0 /\ counts.totalUnpaidViolations = 1)
        /\ statuses = <<<<>>>> =>
              (counts.totalPaidViolations = 0 /\ counts.totalUnpaidViolations = 0)

\* ---------------------------------------------------------------------
\* Claims about the captcha solver
\* ---------------------------------------------------------------------
\* the method a call selects: the requested one, else the configured default
Selected(s) == IF s.method # NoMethod THEN s.method ELSE s.defaultMethod

\* C26: one call of solveCaptcha invokes exactly one solving method, the
\* requested one or else the configured default; when that method fails the
\* call fails with that method's error and the other method is never tried.
C26_OneMethodPerCall ==
    solver.pc = "done" =>
        /\ solver.invoked = <<Selected(solver)>>
        /\ (Selected(solver) = "tesseract" /\ ~solver.ocr.ok)
              => solver.out = solver.ocr
        /\ (Selected(solver) = "autocaptcha" /\ ~solver.out.ok)
              => solver.out.error \in {"AUTOCAPTCHA_KEY not set", "Autocaptcha failed"}

\* C27: when the OCR engine reports a confidence below 30, what the caller of
\* the OCR solve receives tells it so: it differs from what the caller
\* receives for the same text at confidence 30; and for the raw text "O0I1"
\* at confidence 25 the returned text differs from the raw text.
C27_LowConfidenceSignalled ==
    (solver.pc = "done" /\ solver.ocr.ok /\ solver.confidence < 30) =>
        /\ solver.ocr # solveWithTesseract(solver.text, 30, TRUE)
        /\ (solver.text = ScenarioText /\ solver.confidence = 25)
              => solver.ocr.text # ScenarioText

\* the recognised text without its whitespace characters
NonWhitespace(text) == SelectSeq(text, LAMBDA c : c \notin Whitespace)

ConfusionPairs ==
    {<<"0", "O">>, <<"1", "l">>, <<"5", "S">>, <<"6", "G">>, <<"8", "B">>}

\* the other glyph of the pair a character belongs to, else the character
Swapped(c) ==
    IF \E p \in ConfusionPairs : c \in {p[1], p[2]}
    THEN LET p == CHOOSE q \in ConfusionPairs : c \in {q[1], q[2]}
         IN IF c = p[1] THEN p[2] ELSE p[1]
    ELSE c

\* C28: the OCR solve returns the recognised text with all whitespace
\* removed, fails when nothing is left, swaps the characters of the confusion
\* table one by one exactly when the confidence is below 50, and returns the
\* cleaned text as it is at confidence 50 or above.
C28_OcrCleansAndCorrects ==
    (solver.pc = "done" /\ "tesseract" \in Range(solver.invoked)) =>
        LET cleaned == NonWhitespace(solver.text)
        IN /\ cleaned = <<>> => ~solver.ocr.ok
           /\ solver.ocr.ok =>
                /\ solver.confidence < 50 =>
                      solver.ocr.text = [i \in 1..Len(cleaned) |-> Swapped(cleaned[i])]
                /\ solver.confidence >= 50 => solver.ocr.text = cleaned

\* whitespace was removed and a character swapped at confidence 49
C28_Witness ==
    /\ solver.pc = "done"
    /\ solver.invoked = <<"tesseract">>
    /\ solver.text = <<"0", "\n">>
    /\ solver.confidence = 49
    /\ solver.ocr = Resolved(<<"O">>)

\* ---------------------------------------------------------------------
\* Claims about the global OCR worker
\* ---------------------------------------------------------------------
\* C35: under any interleaving of concurrent OCR solves at most one global
\* worker has been created as long as cleanupTesseract was not called: two
\* solves that both start while no worker exists do not each create one.
C35_OneGlobalWorker ==
    (\A k \in Cleanups : cleaning[k].pc = "idle") => Cardinality(workers) <= 1

\* ---------------------------------------------------------------------
\* Claims about the OCR worker pool
\* ---------------------------------------------------------------------
\* C34: the reported busyWorkers is the number of recognitions in flight, so
\* 0 <= busyWorkers <= totalWorkers and availableWorkers = totalWorkers -
\* busyWorkers >= 0, under any interleaving of recognize and cleanup.
C34_PoolStatusIsExact ==
    /\ getPoolStatus.busyWorkers = Cardinality(InFlight)
    /\ 0 <= getPoolStatus.busyWorkers
    /\ getPoolStatus.busyWorkers <= getPoolStatus.totalWorkers
    /\ getPoolStatus.availableWorkers
          = getPoolStatus.totalWorkers - getPoolStatus.busyWorkers
    /\ getPoolStatus.availableWorkers >= 0

\* C37: every recognize call eventually starts its recognition, provided
\* every started recognition eventually finishes: no caller waits forever
\* while other callers keep acquiring the freed slots.
C37_WaitingCallerStarts ==
    \A c \in Callers : (caller[c] = "waiting") ~> (caller[c] = "recognizing")

\* C9: under any interleaving of recognize, initialize and cleanup the number
\* of recognitions in flight is at most maxConcurrent.
C9_InFlightBounded == Cardinality(InFlight) <= pool.maxConcurrent

\* C38: when the handler of a lookup the bot started for a chat has shown
\* the outcome, the violations, that there are none, or the error, and
\* returns, the chat has no conversation state, so it is not left at step
\* FETCHING
C38_StateRemovedAfterLookup ==
    [][\A h \in Handlers :
         (handler[h].pc \in {"results", "error"} /\ handler'[h].pc = "idle")
            => userStates'[handler[h].chat] = NoState]_vars

\* C39: a lookup call leaves the captchaText of its caller's options object
\* as the caller set it, whatever the outcomes of the attempts
C39_OptionsNotMutated ==
    \A c \in Calls : pc[c] = "done" => options[c].captchaText = supplied[c]

\* C40: every job the active-jobs query returns carries the id of its own
\* cron job row and, as user.id, the id of the user row that owns it
C40_JobsCarryOwnIds ==
    \A b \in Batches : \A k \in 1..Len(batch[b].activeJobs) :
        LET job == batch[b].activeJobs[k]
        IN /\ job.id = JobRowOf(job).id
           /\ job.user.id = job.userId

====
